---------------------------- MODULE Spec2Model ----------------------------
(***************************************************************************)
(* Model of the dynamic Hebrew morphological analyzer,                     *)
(* src/src/core/dynamic_hebrew_analyzer.py (class DynamicHebrewAnalyzer),  *)
(* and of three of the components around it: the study streak of           *)
(* hebrew_database.py, the learning session of tanakh_learning_session.py  *)
(* behind the study-verse handler of src/src/web/hebrew_api.py, and the    *)
(* error handling of robust_hebrew_processor.py.                           *)
(*                                                                         *)
(* A Python str is a sequence of Unicode codepoints, so a string is        *)
(* modelled as a sequence of naturals and len(), slicing, startswith() and *)
(* endswith() work on codepoints.  Every string literal of the source is   *)
(* written here as the codepoints the file holds.  The file stores its     *)
(* Hebrew literals mis-decoded: the UTF-8 bytes of each letter were read   *)
(* as single-byte characters, so that in the file the key tagged           *)
(* 'definite_article' is the two codepoints U+00D7 U+201D (215, 8221) and  *)
(* not the letter U+05D4, and a second byte the single-byte table does not *)
(* define was lost ('preposition_from' is the single codepoint U+00D7).    *)
(* The \uXXXX escapes of the source (the diacritic ranges) are unaffected.  *)
(***************************************************************************)
EXTENDS Naturals, Integers, Sequences, FiniteSets, TLC

VARIABLES
    analyzers,  \* analyzers[a]: the attributes __init__ gave analyzer a
    input,      \* the input word under study
    calls,      \* number of analyze_word_dynamically calls completed
    others,     \* number of them on a word other than input
    first,      \* << >>, or << the first completed call on input >>
    last,       \* << >>, or << the call completed most recently >>
    frames,     \* frames[t]: the call thread t is running, its position and locals
    study_sessions, \* rows of the table study_sessions, in insertion order
    clock,          \* the date CURRENT_TIMESTAMP falls on
    progress_stats, \* << >>, or << the last _get_progress_stats call >>
    tanakh_session, \* the global of hebrew_api.py: << >> for None, or << the session >>
    updates,        \* updates[w]: number of _update_word_learning calls on w
    response,       \* << >>, or << the last answer of study_verse_api >>
    processor,      \* the attributes of a RobustHebrewProcessor
    result          \* << >>, or << what the last call on the processor gave >>

\* the state of DynamicHebrewAnalyzer and its callers
analyzerVars == << analyzers, input, calls, others, first, last, frames >>

\* the state of HebrewDatabaseManager
databaseVars == << study_sessions, clock, progress_stats >>

\* the state of the web interface and its TanakhLearningSession
sessionVars == << tanakh_session, updates, response >>

\* the state of RobustHebrewProcessor and its HebrewAIErrorHandler
processorVars == << processor, result >>

vars == << analyzerVars, databaseVars, sessionVars, processorVars >>

(***************************************************************************)
(* Python string primitives.                                               *)
(***************************************************************************)

\* str.startswith(p)
startswith(s, p) == Len(p) <= Len(s) /\ SubSeq(s, 1, Len(p)) = p

\* str.endswith(p)
endswith(s, p) == Len(p) <= Len(s) /\ SubSeq(s, Len(s) - Len(p) + 1, Len(s)) = p

\* s[n:] for 0 <= n
SliceFrom(s, n) == IF n >= Len(s) THEN << >> ELSE SubSeq(s, n + 1, Len(s))

\* s[:-n] for n >= 1
SliceDropLast(s, n) == IF n >= Len(s) THEN << >> ELSE SubSeq(s, 1, Len(s) - n)

\* str.isspace() of one codepoint, which is also the class \s of a str pattern
IsSpace(c) ==
    \/ c \in 9..13
    \/ c \in 28..32
    \/ c \in {133, 160, 5760, 8232, 8233, 8239, 8287, 12288}
    \/ c \in 8192..8202

\* the class [\u0591-\u05C7] of _extract_consonants
IsAccentOrPoint(c) == c >= 1425 /\ c <= 1479

\* the class [\u05B0-\u05BD\u05BF\u05C1\u05C2\u05C4\u05C5\u05C7] of _estimate_syllables
IsVowelPoint(c) ==
    \/ (c >= 1456 /\ c <= 1469)
    \/ c \in {1471, 1473, 1474, 1476, 1477, 1479}

\* the class [\u0591-\u05AF] of _detect_special_features
IsCantillation(c) == c >= 1425 /\ c <= 1455

RECURSIVE Concat(_)
\* ''.join(parts)
Concat(parts) ==
    IF parts = << >> THEN << >> ELSE Head(parts) \o Concat(Tail(parts))

Codepoints(s) == { s[k] : k \in 1..Len(s) }

(***************************************************************************)
(* _clean_hebrew_word                                                      *)
(***************************************************************************)

\* the class of line 289 written without \s
InFinalPunctuationNoSpace(c) == c \in {215, 402, 46, 44, 59, 33, 63}

\* the class [..., '.', ',', ';', '!', '?', \s] of line 289; its first two
\* members are the codepoints U+00D7 and U+0192 the file holds
InFinalPunctuation(c) == c \in {215, 402, 46, 44, 59, 33, 63} \/ IsSpace(c)

RECURSIVE StripTrailingPunctuation(_)
\* re.sub(r'[...]+$', '', word): the one match is the maximal run of class
\* codepoints that reaches the end of the string ($ before a final newline
\* adds nothing, the newline being in the class)
StripTrailingPunctuation(word) ==
    IF word # << >> /\ InFinalPunctuation(word[Len(word)])
    THEN StripTrailingPunctuation(SubSeq(word, 1, Len(word) - 1))
    ELSE word

RECURSIVE lstrip(_)
lstrip(s) == IF s # << >> /\ IsSpace(Head(s)) THEN lstrip(Tail(s)) ELSE s

RECURSIVE rstrip(_)
rstrip(s) ==
    IF s # << >> /\ IsSpace(s[Len(s)]) THEN rstrip(SubSeq(s, 1, Len(s) - 1)) ELSE s

\* str.strip()
strip(s) == lstrip(rstrip(s))

_clean_hebrew_word(word) == strip(StripTrailingPunctuation(word))

(***************************************************************************)
(* _detect_morphemes                                                       *)
(***************************************************************************)

\* the dict prefix_patterns, in insertion order (the order .items() yields)
prefix_patterns ==
    << [prefix |-> << 215, 8221 >>, meaning |-> "definite_article"],
       [prefix |-> << 215, 8226 >>, meaning |-> "conjunction_waw"],
       [prefix |-> << 215, 8216 >>, meaning |-> "preposition_in"],
       [prefix |-> << 215, 8250 >>, meaning |-> "preposition_like"],
       [prefix |-> << 215, 339 >>,  meaning |-> "preposition_to"],
       [prefix |-> << 215 >>,       meaning |-> "preposition_from"],
       [prefix |-> << 215, 169 >>,  meaning |-> "relative_pronoun"] >>

\* the dict suffix_patterns, in insertion order
suffix_patterns ==
    << [suffix |-> << 215, 8482, 215 >>,      meaning |-> "masculine_plural"],
       [suffix |-> << 215, 8226, 215, 170 >>, meaning |-> "feminine_plural"],
       [suffix |-> << 215, 170 >>,            meaning |-> "feminine_singular_or_construct"],
       [suffix |-> << 215, 8482 >>,           meaning |-> "construct_or_possessive"],
       [suffix |-> << 215, 8221 >>,           meaning |-> "feminine_or_directional"],
       [suffix |-> << 215, 376 >>,            meaning |-> "final_nun_energicum"],
       [suffix |-> << 215, 160, 215, 8226 >>, meaning |-> "our_suffix"],
       [suffix |-> << 215, 8250, 215 >>,      meaning |-> "your_masculine_plural"],
       [suffix |-> << 215, 8250, 215, 376 >>, meaning |-> "your_feminine_plural"] >>

RECURSIVE EntriesOfLen(_, _)
EntriesOfLen(entries, n) ==
    IF entries = << >> THEN << >>
    ELSE IF Len(Head(entries).suffix) = n
         THEN << Head(entries) >> \o EntriesOfLen(Tail(entries), n)
         ELSE EntriesOfLen(Tail(entries), n)

RECURSIVE SortedFrom(_, _)
SortedFrom(entries, n) ==
    IF n = 0 THEN << >> ELSE EntriesOfLen(entries, n) \o SortedFrom(entries, n - 1)

RECURSIVE MaxSuffixLen(_)
MaxSuffixLen(entries) ==
    IF entries = << >> THEN 0
    ELSE LET m == MaxSuffixLen(Tail(entries))
             h == Len(Head(entries).suffix)
         IN  IF h > m THEN h ELSE m

\* the keys of suffix_patterns in dict order, not sorted by length
unsorted_suffixes == suffix_patterns

\* sorted(suffix_patterns.keys(), key=len, reverse=True): longest first, and
\* keys of one length in insertion order (the sort is stable)
sorted_suffixes == SortedFrom(suffix_patterns, MaxSuffixLen(suffix_patterns))

RECURSIVE PrefixLoopWholeKey(_, _, _)
\* the loop of lines 60-67 removing len(prefix) codepoints at line 67
PrefixLoopWholeKey(k, prefixes, working_word) ==
    IF k > Len(prefix_patterns)
    THEN [prefixes |-> prefixes, working_word |-> working_word]
    ELSE LET p == prefix_patterns[k]
         IN  IF startswith(working_word, p.prefix) /\ Len(working_word) > 1
             THEN PrefixLoopWholeKey(k + 1,
                                     Append(prefixes, [morpheme |-> p.prefix,
                                                       function |-> p.meaning,
                                                       position |-> "prefix"]),
                                     SliceFrom(working_word, Len(p.prefix)))
             ELSE PrefixLoopWholeKey(k + 1, prefixes, working_word)

RECURSIVE PrefixLoopRescan(_, _, _)
\* the loop of lines 60-67 started again from the first key after a removal
PrefixLoopRescan(k, prefixes, working_word) ==
    IF k > Len(prefix_patterns)
    THEN [prefixes |-> prefixes, working_word |-> working_word]
    ELSE LET p == prefix_patterns[k]
         IN  IF startswith(working_word, p.prefix) /\ Len(working_word) > 1
             THEN PrefixLoopRescan(1,
                                   Append(prefixes, [morpheme |-> p.prefix,
                                                     function |-> p.meaning,
                                                     position |-> "prefix"]),
                                   SliceFrom(working_word, 1))
             ELSE PrefixLoopRescan(k + 1, prefixes, working_word)

RECURSIVE PrefixLoop(_, _, _)
\* lines 60-67: one pass over prefix_patterns.items() from entry k on
PrefixLoop(k, prefixes, working_word) ==
    IF k > Len(prefix_patterns)
    THEN [prefixes |-> prefixes, working_word |-> working_word]
    ELSE LET p == prefix_patterns[k]
         IN  IF startswith(working_word, p.prefix) /\ Len(working_word) > 1
             THEN PrefixLoop(k + 1,
                             Append(prefixes, [morpheme |-> p.prefix,
                                               function |-> p.meaning,
                                               position |-> "prefix"]),
                             SliceFrom(working_word, 1))
             ELSE PrefixLoop(k + 1, prefixes, working_word)

RECURSIVE SuffixLoopNoBreak(_, _, _)
\* the loop of lines 83-91 without its break: every matching suffix is taken
SuffixLoopNoBreak(k, suffixes, working_word) ==
    IF k > Len(sorted_suffixes)
    THEN [suffixes |-> suffixes, working_word |-> working_word]
    ELSE LET s == sorted_suffixes[k]
         IN  IF endswith(working_word, s.suffix) /\ Len(working_word) > Len(s.suffix)
             THEN SuffixLoopNoBreak(k + 1,
                                    Append(suffixes, [morpheme |-> s.suffix,
                                                      function |-> s.meaning,
                                                      position |-> "suffix"]),
                                    SliceDropLast(working_word, Len(s.suffix)))
             ELSE SuffixLoopNoBreak(k + 1, suffixes, working_word)

RECURSIVE SuffixLoopWholeWord(_, _, _)
\* the loop of lines 83-91 with the length test len(working_word) >= len(suffix):
\* a suffix that is all of the working word is taken too
SuffixLoopWholeWord(k, suffixes, working_word) ==
    IF k > Len(sorted_suffixes)
    THEN [suffixes |-> suffixes, working_word |-> working_word]
    ELSE LET s == sorted_suffixes[k]
         IN  IF endswith(working_word, s.suffix) /\ Len(working_word) >= Len(s.suffix)
             THEN [suffixes |-> Append(suffixes, [morpheme |-> s.suffix,
                                                  function |-> s.meaning,
                                                  position |-> "suffix"]),
                   working_word |-> SliceDropLast(working_word, Len(s.suffix))]
             ELSE SuffixLoopWholeWord(k + 1, suffixes, working_word)

RECURSIVE SuffixLoop(_, _, _)
\* lines 83-91: the sorted suffixes from entry k on, leaving at the first match
SuffixLoop(k, suffixes, working_word) ==
    IF k > Len(sorted_suffixes)
    THEN [suffixes |-> suffixes, working_word |-> working_word]
    ELSE LET s == sorted_suffixes[k]
         IN  IF endswith(working_word, s.suffix) /\ Len(working_word) > Len(s.suffix)
             THEN [suffixes |-> Append(suffixes, [morpheme |-> s.suffix,
                                                  function |-> s.meaning,
                                                  position |-> "suffix"]),
                   working_word |-> SliceDropLast(working_word, Len(s.suffix))]
             ELSE SuffixLoop(k + 1, suffixes, working_word)

\* _detect_morphemes with the prefixes list kept between calls instead of being
\* created empty by each call: it still holds what the call before left in it
_detect_morphemes_shared(word) ==
    LET kept == IF last # << >> /\ last[1].outcome = "returned"
                THEN last[1].analysis.detected_morphemes.prefixes
                ELSE << >>
        afterPrefixes == PrefixLoop(1, kept, word)
        afterSuffixes == SuffixLoop(1, << >>, afterPrefixes.working_word)
    IN  [prefixes |-> afterPrefixes.prefixes,
         stem |-> afterSuffixes.working_word,
         suffixes |-> afterSuffixes.suffixes,
         analysis_method |-> "algorithmic"]

_detect_morphemes(word) ==
    LET afterPrefixes == PrefixLoop(1, << >>, word)
        afterSuffixes == SuffixLoop(1, << >>, afterPrefixes.working_word)
    IN  [prefixes |-> afterPrefixes.prefixes,
         stem |-> afterSuffixes.working_word,
         suffixes |-> afterSuffixes.suffixes,
         analysis_method |-> "algorithmic"]

(***************************************************************************)
(* Root extraction and the verb / noun heuristics                          *)
(***************************************************************************)

RECURSIVE _extract_consonants(_)
\* re.sub(r'[\u0591-\u05C7]', '', text)
_extract_consonants(text) ==
    IF text = << >> THEN << >>
    ELSE IF IsAccentOrPoint(Head(text)) THEN _extract_consonants(Tail(text))
         ELSE << Head(text) >> \o _extract_consonants(Tail(text))

\* _extract_root_algorithmically taking the consonants of the whole word, not
\* of the stem
_extract_root_from_word(word) ==
    LET consonant_root == _extract_consonants(word)
    IN  [extracted_root |-> consonant_root,
         root_length |-> Len(consonant_root),
         extraction_method |-> "algorithmic_morpheme_analysis",
         confidence |-> IF 2 <= Len(consonant_root) /\ Len(consonant_root) <= 4
                        THEN "medium" ELSE "low"]

_extract_root_algorithmically(word) ==
    LET morphemes == _detect_morphemes(word)
        potential_root == morphemes.stem
        consonant_root == _extract_consonants(potential_root)
    IN  [extracted_root |-> consonant_root,
         root_length |-> Len(consonant_root),
         extraction_method |-> "algorithmic_morpheme_analysis",
         confidence |-> IF 2 <= Len(consonant_root) /\ Len(consonant_root) <= 4
                        THEN "medium" ELSE "low"]

\* the codepoints of the class of line 162 (verbal endings) as the file holds it
verbal_endings == {215, 170, 8482, 160, 8221}

\* the codepoints of the class of line 163 (verbal prefixes) as the file holds it
verbal_prefixes == {215, 170, 8482, 160, 8221}

\* re.search(r'[...]$', word): $ matches at the end of the string and also just
\* before a newline that ends it
SearchAtEnd(word, class) ==
    \/ Len(word) >= 1 /\ word[Len(word)] \in class
    \/ Len(word) >= 2 /\ word[Len(word)] = 10 /\ word[Len(word) - 1] \in class

\* re.search(r'^[...]', word)
SearchAtStart(word, class) == Len(word) >= 1 /\ word[1] \in class

\* sum() of a list of bools
CountTrue(bools) == Cardinality({ k \in 1..Len(bools) : bools[k] })

verb_indicators(word) ==
    << Len(_extract_consonants(word)) >= 3,
       SearchAtEnd(word, verbal_endings),
       SearchAtStart(word, verbal_prefixes) >>

\* _matches_verb_patterns asking for one indicator only
_matches_verb_patterns_any(word) == CountTrue(verb_indicators(word)) >= 1

_matches_verb_patterns(word) == CountTrue(verb_indicators(word)) >= 2

noun_endings ==
    << << 215, 8482, 215 >>, << 215, 8226, 215, 170 >>, << 215, 170 >>,
       << 215, 8221 >>, << 215, 8482 >> >>

_matches_noun_patterns(word) ==
    IF startswith(word, << 215, 8221 >>) THEN TRUE
    ELSE IF \E k \in 1..Len(noun_endings) : endswith(word, noun_endings[k]) THEN TRUE
    ELSE FALSE

\* features.append(tag) under `if cond`
AppendIf(features, cond, tag) == IF cond THEN Append(features, tag) ELSE features

_detect_verbal_features(word) ==
    LET f1 == AppendIf(<< >>, startswith(word, << 215, 8221 >>), "possible_hiphil")
        f2 == AppendIf(f1, startswith(word, << 215, 160 >>), "possible_niphal")
        f3 == AppendIf(f2, startswith(word, << 215, 170 >>), "possible_hithpael_or_future")
        f4 == AppendIf(f3, startswith(word, << 215, 8482 >>), "possible_future_3ms")
    IN  AppendIf(f4, startswith(word, << 215 >>), "possible_future_1s")

_detect_nominal_features(word) ==
    LET f1 == AppendIf(<< >>, startswith(word, << 215, 8221 >>), "definite_article")
        f2 == AppendIf(f1, endswith(word, << 215, 8482, 215 >>), "masculine_plural")
        f3 == AppendIf(f2, endswith(word, << 215, 8226, 215, 170 >>), "feminine_plural")
    IN  AppendIf(f3, endswith(word, << 215, 170 >>), "feminine_or_construct")

\* _classify_grammatically with the particle branch asking for a non-empty word
_classify_grammatically_nonempty(word) ==
    IF _matches_verb_patterns(word)
    THEN [primary_category |-> "verb",
          secondary_features |-> _detect_verbal_features(word),
          reasoning |-> "matches Hebrew verbal morphology patterns"]
    ELSE IF _matches_noun_patterns(word)
    THEN [primary_category |-> "noun",
          secondary_features |-> _detect_nominal_features(word),
          reasoning |-> "matches Hebrew nominal morphology patterns"]
    ELSE IF 0 < Len(word) /\ Len(word) <= 3
    THEN [primary_category |-> "particle",
          secondary_features |-> << "short_function_word" >>,
          reasoning |-> "short word likely function/grammatical particle"]
    ELSE [primary_category |-> "unknown",
          secondary_features |-> << >>,
          reasoning |-> "pattern not clearly identified"]

\* _classify_grammatically with the feature of the particle branch assigned
\* before the length test, to every word neither heuristic matches
_classify_grammatically_feature_before_length(word) ==
    IF _matches_verb_patterns(word)
    THEN [primary_category |-> "verb",
          secondary_features |-> _detect_verbal_features(word),
          reasoning |-> "matches Hebrew verbal morphology patterns"]
    ELSE IF _matches_noun_patterns(word)
    THEN [primary_category |-> "noun",
          secondary_features |-> _detect_nominal_features(word),
          reasoning |-> "matches Hebrew nominal morphology patterns"]
    ELSE IF Len(word) <= 3
    THEN [primary_category |-> "particle",
          secondary_features |-> << "short_function_word" >>,
          reasoning |-> "short word likely function/grammatical particle"]
    ELSE [primary_category |-> "unknown",
          secondary_features |-> << "short_function_word" >>,
          reasoning |-> "pattern not clearly identified"]

\* _classify_grammatically with the noun test in front of the verb test
_classify_grammatically_noun_first(word) ==
    IF _matches_noun_patterns(word)
    THEN [primary_category |-> "noun",
          secondary_features |-> _detect_nominal_features(word),
          reasoning |-> "matches Hebrew nominal morphology patterns"]
    ELSE IF _matches_verb_patterns(word)
    THEN [primary_category |-> "verb",
          secondary_features |-> _detect_verbal_features(word),
          reasoning |-> "matches Hebrew verbal morphology patterns"]
    ELSE IF Len(word) <= 3
    THEN [primary_category |-> "particle",
          secondary_features |-> << "short_function_word" >>,
          reasoning |-> "short word likely function/grammatical particle"]
    ELSE [primary_category |-> "unknown",
          secondary_features |-> << >>,
          reasoning |-> "pattern not clearly identified"]

\* _classify_grammatically with the particle branch kept for single letters
_classify_grammatically_single_letter(word) ==
    IF _matches_verb_patterns(word)
    THEN [primary_category |-> "verb",
          secondary_features |-> _detect_verbal_features(word),
          reasoning |-> "matches Hebrew verbal morphology patterns"]
    ELSE IF _matches_noun_patterns(word)
    THEN [primary_category |-> "noun",
          secondary_features |-> _detect_nominal_features(word),
          reasoning |-> "matches Hebrew nominal morphology patterns"]
    ELSE IF Len(word) <= 1
    THEN [primary_category |-> "particle",
          secondary_features |-> << "short_function_word" >>,
          reasoning |-> "short word likely function/grammatical particle"]
    ELSE [primary_category |-> "unknown",
          secondary_features |-> << >>,
          reasoning |-> "pattern not clearly identified"]

_classify_grammatically(word) ==
    IF _matches_verb_patterns(word)
    THEN [primary_category |-> "verb",
          secondary_features |-> _detect_verbal_features(word),
          reasoning |-> "matches Hebrew verbal morphology patterns"]
    ELSE IF _matches_noun_patterns(word)
    THEN [primary_category |-> "noun",
          secondary_features |-> _detect_nominal_features(word),
          reasoning |-> "matches Hebrew nominal morphology patterns"]
    ELSE IF Len(word) <= 3
    THEN [primary_category |-> "particle",
          secondary_features |-> << "short_function_word" >>,
          reasoning |-> "short word likely function/grammatical particle"]
    ELSE [primary_category |-> "unknown",
          secondary_features |-> << >>,
          reasoning |-> "pattern not clearly identified"]

(***************************************************************************)
(* Morphological features                                                  *)
(***************************************************************************)

RECURSIVE _extract_vowel_pattern(_)
\* ''.join(re.findall(vowel_points, word))
_extract_vowel_pattern(word) ==
    IF word = << >> THEN << >>
    ELSE IF IsVowelPoint(Head(word))
         THEN << Head(word) >> \o _extract_vowel_pattern(Tail(word))
         ELSE _extract_vowel_pattern(Tail(word))

_estimate_syllables(word) ==
    LET vowel_count == Len(_extract_vowel_pattern(word))
    IN  IF vowel_count > 1 THEN vowel_count ELSE 1

_extract_consonant_pattern(word) == _extract_consonants(word)

\* the codepoints of the string final_letters (line 251) as the file holds it
final_letters == << 215, 353, 215, 215, 376, 215, 163, 215, 165 >>

_detect_special_features(word) ==
    LET f1 == AppendIf(<< >>, 1468 \in Codepoints(word), "contains_dagesh")
        f2 == AppendIf(f1,
                       \E k \in 1..Len(final_letters) : final_letters[k] \in Codepoints(word),
                       "contains_final_form")
    IN  AppendIf(f2, \E c \in Codepoints(word) : IsCantillation(c), "contains_cantillation")

_detect_morphological_features(word) ==
    [syllable_count |-> _estimate_syllables(word),
     vowel_pattern |-> _extract_vowel_pattern(word),
     consonant_pattern |-> _extract_consonant_pattern(word),
     special_features |-> _detect_special_features(word)]

(***************************************************************************)
(* Confidence.  A score is held in hundredths: 0.83 is 83.                 *)
(***************************************************************************)

RECURSIVE Sum(_)
Sum(xs) == IF xs = << >> THEN 0 ELSE Head(xs) + Sum(Tail(xs))

\* round(total / n, 2) in hundredths: the nearest hundredth, a tie to the even one
RoundedMean(total, n) ==
    LET q == total \div n
        r == total % n
    IN  IF 2 * r < n THEN q
        ELSE IF 2 * r > n THEN q + 1
        ELSE IF q % 2 = 0 THEN q ELSE q + 1

\* confidence_factors with the length test written 2 <= len(word) < 8
confidence_factors_below_8(word) ==
    LET f1 == Append(<< >>, IF 2 <= Len(word) /\ Len(word) < 8 THEN 100 ELSE 50)
        f2 == Append(f1, IF _matches_verb_patterns(word) \/ _matches_noun_patterns(word)
                         THEN 80 ELSE 40)
        morphemes == _detect_morphemes(word)
    IN  Append(f2, IF morphemes.stem # << >> THEN 70 ELSE 30)

\* the list confidence_factors when line 284 is reached
confidence_factors(word) ==
    LET f1 == Append(<< >>, IF 2 <= Len(word) /\ Len(word) <= 8 THEN 100 ELSE 50)
        f2 == Append(f1, IF _matches_verb_patterns(word) \/ _matches_noun_patterns(word)
                         THEN 80 ELSE 40)
        morphemes == _detect_morphemes(word)
    IN  Append(f2, IF morphemes.stem # << >> THEN 70 ELSE 30)

\* line 284 divides by len(confidence_factors): ZeroDivisionError when it is 0
ConfidenceRaises(word) == Len(confidence_factors(word)) = 0

\* _calculate_dynamic_confidence returning the sum of the factors, not their mean
_calculate_dynamic_confidence_sum(word) == Sum(confidence_factors(word))

_calculate_dynamic_confidence(word) ==
    RoundedMean(Sum(confidence_factors(word)), Len(confidence_factors(word)))

(***************************************************************************)
(* analyze_word_dynamically                                                *)
(***************************************************************************)

\* analyze_word_dynamically with an early return for a word that cleans to
\* nothing, which fills in only part of the dict
analyze_word_dynamically_early_return(word) ==
    LET clean_word == _clean_hebrew_word(word)
    IN  IF clean_word = << >>
        THEN [original_word |-> word, clean_word |-> clean_word, confidence_score |-> 0]
        ELSE [original_word |-> word,
              clean_word |-> clean_word,
              detected_morphemes |-> _detect_morphemes(clean_word),
              grammatical_category |-> _classify_grammatically(clean_word),
              root_extraction |-> _extract_root_algorithmically(clean_word),
              morphological_features |-> _detect_morphological_features(clean_word),
              confidence_score |-> _calculate_dynamic_confidence(clean_word)]

\* the dict built at lines 25-33
analyze_word_dynamically(word) ==
    LET clean_word == _clean_hebrew_word(word)
    IN  [original_word |-> word,
         clean_word |-> clean_word,
         detected_morphemes |-> _detect_morphemes(clean_word),
         grammatical_category |-> _classify_grammatically(clean_word),
         root_extraction |-> _extract_root_algorithmically(clean_word),
         morphological_features |-> _detect_morphological_features(clean_word),
         confidence_score |-> _calculate_dynamic_confidence(clean_word)]

\* an exception leaves analyze_word_dynamically when one of its steps raises
AnalyzeRaises(word) == ConfidenceRaises(_clean_hebrew_word(word))

(***************************************************************************)
(* __init__                                                                *)
(***************************************************************************)

_create_pattern_database ==
    [verb_prefixes |-> << << 215 >>, << 215, 170 >>, << 215, 8482 >>, << 215, 160 >> >>,
     noun_definite |-> << 215, 8221 >>,
     prepositions |-> << << 215, 8216 >>, << 215, 8250 >>, << 215, 339 >>, << 215 >> >>,
     conjunctions |-> << << 215, 8226 >> >>,
     common_suffixes |-> << << 215, 8482, 215 >>, << 215, 8226, 215, 170 >>,
                            << 215, 170 >>, << 215, 8221 >>, << 215, 8482 >> >>]

_load_morpheme_database ==
    [prefixes |-> << [key |-> << 215, 8221 >>, type |-> "definite_article"],
                     [key |-> << 215, 8226 >>, type |-> "conjunction"],
                     [key |-> << 215, 8216 >>, type |-> "preposition"] >>,
     suffixes |-> << [key |-> << 215, 8482, 215 >>, type |-> "plural_marker"],
                     [key |-> << 215, 8226, 215, 170 >>, type |-> "plural_marker"] >>]

\* the attributes of a freshly constructed analyzer
NewAnalyzer ==
    [hebrew_patterns |-> _create_pattern_database,
     morpheme_database |-> _load_morpheme_database]

(***************************************************************************)
(* Inputs                                                                  *)
(***************************************************************************)

\* longest word of the exhaustive part of the inputs
MaxLen == 3
\* most prefix pieces put in front of a stem
MaxStack == 2
\* most letters of a stem
MaxStem == 3
\* number of analyzer instances
NumAnalyzers == 2
\* most calls in one behaviour of SpecCalls
MaxCalls == 3
\* number of threads that call one analyzer in SpecSteps
NumThreads == 2

Analyzers == 1..NumAnalyzers

Threads == 1..NumThreads

\* codepoints of the exhaustive inputs: U+00D7, U+201D and U+2122 (of the
\* literals of the source), HE, SHEVA, FULL STOP, SPACE, LATIN SMALL LETTER A
Alphabet == {215, 8221, 8482, 1492, 1456, 46, 32, 97}

ShortWords == UNION { [1..n -> Alphabet] : n \in 0..MaxLen }

\* pieces put in front of a stem: five keys of prefix_patterns as the file
\* holds them, and the letters HE, VAV, BET
PrefixPieces ==
    { << 215, 8221 >>, << 215, 8226 >>, << 215, 8216 >>, << 215 >>, << 215, 169 >>,
      << 1492 >>, << 1493 >>, << 1489 >> }

PrefixStacks == UNION { [1..n -> PrefixPieces] : n \in 0..MaxStack }

\* DALET BET RESH SHIN QOF LAMED: stems are its leading letters
StemLetters == << 1491, 1489, 1512, 1513, 1511, 1500 >>

\* the stems, and the longest one with a SHEVA under its first letter
Stems ==
    { SubSeq(StemLetters, 1, n) : n \in 0..MaxStem }
        \cup { << 1491, 1456 >> \o SubSeq(StemLetters, 2, MaxStem) }

\* pieces put behind a stem: nothing, a key of suffix_patterns as the file
\* holds it, the letters YOD FINAL-MEM, or two of the keys tagged
\* feminine_singular_or_construct and construct_or_possessive in a row
SuffixPieces ==
    { suffix_patterns[k].suffix : k \in 1..Len(suffix_patterns) }
        \cup { << >>, << 1497, 1501 >> }
        \cup { a \o b : a, b \in { << 215, 170 >>, << 215, 8482 >> } }

ShapedWords ==
    { Concat(ps) \o st \o su : ps \in PrefixStacks, st \in Stems, su \in SuffixPieces }

\* inputs of SpecCalls: U+00D7, U+201D, HE, FULL STOP
CallAlphabet == {215, 8221, 1492, 46}

CallWords == UNION { [1..n -> CallAlphabet] : n \in 0..MaxLen }

\* words with a LINE FEED behind or inside them (the $ of lines 162 and 289
\* also matches in front of a line feed that ends the string)
NewlineWords ==
    { << 8482, 10 >>, << 97, 8482, 10 >>, << 97, 8482, 97, 10 >>,
      << 8482, 10, 97 >>, << 97, 10, 8221 >>, << 10, 8482, 97, 97 >> }

\* pointed words: BET SHEVA DAGESH; BET DAGESH QAMATS and the accent ETNAHTA;
\* SHIN and its SHIN DOT; the first word of Genesis, fully pointed
PointedWords ==
    { << 1489, 1456, 1468 >>,
      << 1489, 1468, 1464, 1425 >>,
      << 1513, 1473 >>,
      << 1489, 1456, 1468, 1512, 1461, 1488, 1513, 1460, 1473, 1497, 1514 >> }

Words == ShortWords \cup ShapedWords \cup NewlineWords \cup PointedWords

\* words of the calls made besides those on the word under study
OtherWords == { << 215, 8221, 1491, 1489, 215, 8482 >> }

(***************************************************************************)
(* HebrewDatabaseManager: study sessions and the study streak              *)
(***************************************************************************)

\* days the clock of the database can be moved on
MaxDays == 4
\* rows the table study_sessions can hold
MaxSessions == 4

Users == {"u1", "u2"}

\* values of the parameter days of _get_progress_stats
DaysAsked == {0, 2, 30}

\* a date is the text DATE(start_time) gives, 'YYYY-MM-DD', held by its fields
FirstDay == [year |-> 2024, month |-> 2, day |-> 27]

IsLeap(year) == year % 4 = 0 /\ (year % 100 # 0 \/ year % 400 = 0)

DaysInMonth(year, month) ==
    IF month = 2 THEN (IF IsLeap(year) THEN 29 ELSE 28)
    ELSE IF month \in {4, 6, 9, 11} THEN 30 ELSE 31

\* the calendar day after a date
tomorrow(date) ==
    IF date.day < DaysInMonth(date.year, date.month)
    THEN [date EXCEPT !.day = @ + 1]
    ELSE IF date.month < 12
         THEN [date EXCEPT !.month = @ + 1, !.day = 1]
         ELSE [year |-> date.year + 1, month |-> 1, day |-> 1]

RECURSIVE DaysBeforeMonth(_, _)
DaysBeforeMonth(year, month) ==
    IF month = 1 THEN 0
    ELSE DaysBeforeMonth(year, month - 1) + DaysInMonth(year, month - 1)

\* datetime.strptime(date_str, '%Y-%m-%d').date() as the day number that
\* date subtraction works on (date.toordinal)
strptime(date_str) ==
    LET y == date_str.year - 1
    IN  365 * y + (y \div 4) - (y \div 100) + (y \div 400)
            + DaysBeforeMonth(date_str.year, date_str.month) + date_str.day

RECURSIVE StreakLoop(_, _, _, _)
\* the loop of lines 447-453 from study_dates[k] on
StreakLoop(k, study_dates, streak, current_date) ==
    IF k > Len(study_dates)
    THEN streak
    ELSE LET date == strptime(study_dates[k])
         IN  IF current_date - date = 1
             THEN StreakLoop(k + 1, study_dates, streak + 1, date)
             ELSE streak

_calculate_study_streak(study_dates) ==
    IF study_dates = << >>
    THEN 0
    ELSE StreakLoop(2, study_dates, 1, strptime(study_dates[1]))

Reverse(s) == [k \in 1..Len(s) |-> s[Len(s) + 1 - k]]

\* SELECT DATE(start_time) ... WHERE user_id = ? ORDER BY start_time DESC:
\* rows are inserted at CURRENT_TIMESTAMP, so the newest row is the last one
SelectStudyDates(table, user_id) ==
    LET rows == SelectSeq(table, LAMBDA row : row.user_id = user_id)
    IN  Reverse([k \in 1..Len(rows) |-> rows[k].start_time])

Range(s) == { s[k] : k \in 1..Len(s) }

\* min(1.0, len(set(dates)) / days) if days > 0 else 0.0, as a fraction
consistency_score(dates, days) ==
    IF days > 0
    THEN IF Cardinality(Range(dates)) >= days
         THEN [numerator |-> 1, denominator |-> 1]
         ELSE [numerator |-> Cardinality(Range(dates)), denominator |-> days]
    ELSE [numerator |-> 0, denominator |-> 1]

_get_progress_stats(table, user_id, days) ==
    LET dates == SelectStudyDates(table, user_id)
    IN  [study_streak |-> _calculate_study_streak(dates),
         last_study_date |-> IF dates # << >> THEN << dates[1] >> ELSE << >>,
         consistency_score |-> consistency_score(dates, days)]

\* the database after initialize_database: no session yet
DatabaseCreated ==
    /\ study_sessions = << >>
    /\ clock = FirstDay
    /\ progress_stats = << >>

\* start_study_session: one row more, its start_time the current time (two
\* sessions of a user are started in different seconds, so that their
\* session_id differ)
StartStudySession(user_id) ==
    /\ Len(study_sessions) < MaxSessions
    /\ study_sessions' = Append(study_sessions, [user_id |-> user_id, start_time |-> clock])
    /\ UNCHANGED << clock, progress_stats >>
    /\ UNCHANGED << analyzerVars, sessionVars, processorVars >>

\* midnight passes
Midnight ==
    /\ strptime(clock) - strptime(FirstDay) < MaxDays
    /\ clock' = tomorrow(clock)
    /\ UNCHANGED << study_sessions, progress_stats >>
    /\ UNCHANGED << analyzerVars, sessionVars, processorVars >>

\* _get_progress_stats(user_id, days), with the dates it read
GetProgressStats(user_id, days) ==
    /\ progress_stats' =
           << [user_id |-> user_id, days |-> days,
               dates |-> SelectStudyDates(study_sessions, user_id),
               stats |-> _get_progress_stats(study_sessions, user_id, days)] >>
    /\ UNCHANGED << study_sessions, clock >>
    /\ UNCHANGED << analyzerVars, sessionVars, processorVars >>

(***************************************************************************)
(* TanakhLearningSession and the study_verse_api handler of hebrew_api.py  *)
(***************************************************************************)

\* _update_word_learning calls on one word
MaxUpdates == 10
\* verses studied in one session
MaxStudies == 6

None == "None"

\* ALEF, BET
LearnableWords == { << 1488 >>, << 1489 >> }

\* a Tanakh of one book with one chapter: ALEF and BET FULL-STOP; ALEF, a
\* FULL STOP alone, ALEF SPACE; a verse with no word
TanakhData ==
    [Gen |-> << << << << 1488 >>, << 1489, 46 >> >>,
                   << << 1488 >>, << 46 >>, << 1488, 32 >> >>,
                   << >> >> >>]

\* the verses asked for
Requests ==
    { [book |-> "Gen", chapter |-> 1, verse |-> 1],
      [book |-> "Gen", chapter |-> 1, verse |-> 2],
      [book |-> "Gen", chapter |-> 1, verse |-> 3],
      [book |-> "Gen", chapter |-> 1, verse |-> 4],
      [book |-> "Gen", chapter |-> 2, verse |-> 1],
      [book |-> "Gen", chapter |-> 0, verse |-> 1],
      [book |-> "Exo", chapter |-> 1, verse |-> 1] }

\* self.alephbert and self.ollama, in the order _initialize_analyzers adds them
AnalyzerNames == << "AlephBERT", "Ollama" >>

\* what learning_progress.json can hold when the session starts; a
\* confidence level is held in hundredths (the float sums of line 284 differ
\* from them by less than 1e-15 and are capped at 1.0 all the same)
ProgressFiles ==
    { << >>,
      << [vocabulary |->
            [w \in { << 1489 >> } |->
                [word |-> w, times_studied |-> 6, confidence_level |-> 70,
                 translations_learned |-> << "AlephBERT" >>,
                 mastery_level |-> "beginner"]]] >> }

\* the attributes after __init__
NewSession ==
    [tanakh_data |-> << >>, vocabulary |-> << >>, study_history |-> 0,
     available_analyzers |-> << >>, words_studied_today |-> 0,
     verses_studied_today |-> 0, progress_loaded |-> {}]

\* _load_progress: every entry of the file replaces the word's entry
_load_progress(session, file) ==
    IF file = << >>
    THEN session
    ELSE [session EXCEPT
            !.vocabulary = [w \in DOMAIN file[1].vocabulary \cup DOMAIN @ |->
                               IF w \in DOMAIN file[1].vocabulary
                               THEN file[1].vocabulary[w] ELSE @[w]],
            !.progress_loaded = DOMAIN file[1].vocabulary]

\* initialize: without the data file it returns False at line 69; else the
\* analyzers that initialize are added in order and the progress is loaded
initialize(session, data_found, ready, file) ==
    IF ~data_found
    THEN session
    ELSE _load_progress(
             [session EXCEPT
                 !.tanakh_data = TanakhData,
                 !.available_analyzers = SelectSeq(AnalyzerNames, LAMBDA a : a \in ready)],
             file)

\* the global tanakh_session after startup_event: None when startup failed
\* before line 116, else the session, whatever initialize returned
StartedSessions ==
    { << >> }
        \cup { << initialize(NewSession, FALSE, {}, << >>) >> }
        \cup { << initialize(NewSession, TRUE, ready, file) >> :
                 ready \in SUBSET Range(AnalyzerNames), file \in ProgressFiles }

\* _get_verse_data: << >> for None, else << the dict >>
_get_verse_data(session, book, chapter, verse) ==
    IF book \notin DOMAIN session.tanakh_data
    THEN << >>
    ELSE LET book_data == session.tanakh_data[book]
         IN  IF book_data = << >> THEN << >>
             ELSE IF chapter > Len(book_data) \/ chapter < 1 THEN << >>
             ELSE LET chapter_data == book_data[chapter]
                  IN  IF verse > Len(chapter_data) \/ verse < 1 THEN << >>
                      ELSE << [text |-> chapter_data[verse], book |-> book,
                               chapter |-> chapter, verse |-> verse] >>

\* TanakhLearningSession._clean_hebrew_word: codepoints outside U+0590-U+06FF
\* are removed, then the ends are stripped
session_clean_hebrew_word(word) ==
    strip(SelectSeq(word, LAMBDA c : c >= 1424 /\ c <= 1791))

\* _update_word_learning with > for >= in the tests of lines 287-292
_update_word_learning_after(vocabulary, word, analysis) ==
    IF word \in DOMAIN vocabulary
    THEN LET times_studied == vocabulary[word].times_studied + 1
             confidence_level ==
                 IF vocabulary[word].confidence_level + 10 < 100
                 THEN vocabulary[word].confidence_level + 10 ELSE 100
         IN  [vocabulary EXCEPT
                ![word].times_studied = times_studied,
                ![word].confidence_level = confidence_level,
                ![word].mastery_level =
                    IF times_studied > 10 THEN "mastered"
                    ELSE IF times_studied > 5 THEN "advanced"
                    ELSE IF times_studied > 3 THEN "intermediate"
                    ELSE @]
    ELSE [w \in DOMAIN vocabulary \cup {word} |->
            IF w = word
            THEN [word |-> word, times_studied |-> 1, confidence_level |-> 20,
                  translations_learned |-> << analysis >>,
                  mastery_level |-> "beginner"]
            ELSE vocabulary[w]]

\* _update_word_learning: the vocabulary after the call (first_seen and
\* last_studied, readings of the wall clock, are left out)
_update_word_learning(vocabulary, word, analysis) ==
    IF word \in DOMAIN vocabulary
    THEN LET times_studied == vocabulary[word].times_studied + 1
             confidence_level ==
                 IF vocabulary[word].confidence_level + 10 < 100
                 THEN vocabulary[word].confidence_level + 10 ELSE 100
         IN  [vocabulary EXCEPT
                ![word].times_studied = times_studied,
                ![word].confidence_level = confidence_level,
                ![word].mastery_level =
                    IF times_studied >= 10 THEN "mastered"
                    ELSE IF times_studied >= 5 THEN "advanced"
                    ELSE IF times_studied >= 3 THEN "intermediate"
                    ELSE @]
    ELSE [w \in DOMAIN vocabulary \cup {word} |->
            IF w = word
            THEN [word |-> word, times_studied |-> 1, confidence_level |-> 20,
                  translations_learned |-> << analysis >>,
                  mastery_level |-> "beginner"]
            ELSE vocabulary[w]]

\* _analyze_word_with_available_models: the results of the analyzers that
\* answer, in the order of available_analyzers; a result is held by the name
\* of its analyzer
_analyze_word_with_available_models(session, answering) ==
    SelectSeq(session.available_analyzers, LAMBDA a : a \in answering)

RECURSIVE StudyWords(_, _, _, _)
\* the loop of lines 172-185 from hebrew_words[k] on; answers[k] are the
\* analyzers that answer for hebrew_words[k]
StudyWords(k, hebrew_words, answers, acc) ==
    IF k > Len(hebrew_words)
    THEN acc
    ELSE LET clean_word == session_clean_hebrew_word(hebrew_words[k])
             word_analysis == _analyze_word_with_available_models(acc.session, answers[k])
         IN  IF clean_word = << >> \/ word_analysis = << >>
             THEN StudyWords(k + 1, hebrew_words, answers, acc)
             ELSE StudyWords(k + 1, hebrew_words, answers,
                      [session |-> [acc.session EXCEPT
                                       !.vocabulary = _update_word_learning(@, clean_word,
                                                                           word_analysis[1])],
                       analysis_results |-> acc.analysis_results \o word_analysis,
                       words_learned |-> Append(acc.words_learned, clean_word)])

\* study_verse: the session after the call and what it returns, << >> for
\* None, else << the VerseStudy >> (study_time is left out)
study_verse(session, book, chapter, verse, answers) ==
    LET verse_data == _get_verse_data(session, book, chapter, verse)
    IN  IF verse_data = << >> \/ verse_data[1].text = << >>
        THEN [session |-> session, verse_study |-> << >>]
        ELSE LET hebrew_words == verse_data[1].text
                 acc == StudyWords(1, hebrew_words, answers,
                                   [session |-> session, analysis_results |-> << >>,
                                    words_learned |-> << >>])
             IN  [session |->
                      [acc.session EXCEPT
                          !.study_history = @ + 1,
                          !.verses_studied_today = @ + 1,
                          !.words_studied_today = @ + Len(acc.words_learned)],
                  verse_study |->
                      << [book |-> book, chapter |-> chapter, verse |-> verse,
                          hebrew_text |-> hebrew_words,
                          analysis_results |-> acc.analysis_results,
                          words_learned |-> acc.words_learned] >>]

\* number of times w is in the sequence s
Occurrences(s, w) == Cardinality({ k \in 1..Len(s) : s[k] = w })

\* the exception classes of the handler and their base classes
BaseClass ==
    [HTTPException |-> "Exception", ValueError |-> "Exception",
     Exception |-> "BaseException"]

RECURSIVE IsSubclass(_, _)
IsSubclass(class, base) ==
    \/ class = base
    \/ class \in DOMAIN BaseClass /\ IsSubclass(BaseClass[class], base)

\* the try block of lines 227-250: what it returns or raises
StudyVerseTry(request, verse_study) ==
    IF verse_study = << >>
    THEN [raises |-> "HTTPException", status_code |-> 404, detail |-> "Verse not found"]
    ELSE [raises |-> None, status_code |-> 200,
          detail |-> [verse_reference |-> request,
                      hebrew_text |-> verse_study[1].hebrew_text,
                      analysis_results |-> verse_study[1].analysis_results,
                      words_learned |-> Len(verse_study[1].words_learned)]]

\* study_verse_api with an except clause for HTTPException that raises it
\* again in front of the clause of line 252
study_verse_api_reraise(session_available, request, verse_study) ==
    IF ~session_available
    THEN [status_code |-> 503, detail |-> "Tanakh session not available"]
    ELSE LET try == StudyVerseTry(request, verse_study)
         IN  IF try.raises = None
             THEN [status_code |-> try.status_code, detail |-> try.detail]
             ELSE IF IsSubclass(try.raises, "HTTPException")
             THEN [status_code |-> try.status_code, detail |-> try.detail]
             ELSE [status_code |-> 500, detail |-> "Verse study failed"]

\* the answer of study_verse_api: the except clause of line 252 takes every
\* Exception the try block raises
study_verse_api(session_available, request, verse_study) ==
    IF ~session_available
    THEN [status_code |-> 503, detail |-> "Tanakh session not available"]
    ELSE LET try == StudyVerseTry(request, verse_study)
         IN  IF try.raises = None
             THEN [status_code |-> try.status_code, detail |-> try.detail]
             ELSE IF IsSubclass(try.raises, "Exception")
             THEN [status_code |-> 500, detail |-> "Verse study failed"]
             ELSE [status_code |-> try.status_code, detail |-> try.detail]

\* no web application is running
NoSession ==
    /\ tanakh_session = << >>
    /\ updates = [w \in LearnableWords |-> 0]
    /\ response = << >>

\* POST /api/study-verse; answers[k] are the analyzers that answer for the
\* k-th word of the verse
StudyVerseApi(request, answers) ==
    /\ IF tanakh_session = << >>
       THEN /\ response' = << [status_code |-> study_verse_api(FALSE, request, << >>).status_code,
                               detail |-> study_verse_api(FALSE, request, << >>).detail,
                               session_available |-> FALSE,
                               verse_study |-> << >>] >>
            /\ UNCHANGED << tanakh_session, updates >>
       ELSE LET studied == study_verse(tanakh_session[1], request.book, request.chapter,
                                       request.verse, answers)
                learned == IF studied.verse_study = << >> THEN << >>
                           ELSE studied.verse_study[1].words_learned
            IN  /\ studied.session.verses_studied_today <= MaxStudies
                /\ \A w \in LearnableWords : updates[w] + Occurrences(learned, w) <= MaxUpdates
                /\ tanakh_session' = << studied.session >>
                /\ updates' = [w \in LearnableWords |-> updates[w] + Occurrences(learned, w)]
                /\ response' =
                       << [status_code |-> study_verse_api(TRUE, request, studied.verse_study).status_code,
                           detail |-> study_verse_api(TRUE, request, studied.verse_study).detail,
                           session_available |-> TRUE,
                           verse_study |-> studied.verse_study] >>
    /\ UNCHANGED << analyzerVars, databaseVars, processorVars >>

\* the longest text of a verse
MaxVerseWords == 3

\* the analyzers that answer for each word of a verse: the same ones for
\* every word, or all of them for the first word and none after it
AnswerChoices ==
    { [k \in 1..MaxVerseWords |-> answering] : answering \in SUBSET Range(AnalyzerNames) }
        \cup { [k \in 1..MaxVerseWords |-> IF k = 1 THEN Range(AnalyzerNames) ELSE {}] }

(***************************************************************************)
(* RobustHebrewProcessor and its HebrewAIErrorHandler                      *)
(***************************************************************************)

\* records the error history can hold
MaxErrors == 2

\* an exception: the name of its class, its message (the pieces it is put
\* together from), and which of the words
\* that _classify_error and _determine_severity look for are in the
\* lower-cased message
EmptyText ==
    [name |-> "ValueError", message |-> << "Empty Hebrew text provided" >>, words |-> {}]

Exceptions ==
    { EmptyText,
      [name |-> "RuntimeError", message |-> << "CUDA out of memory" >>,
       words |-> {"cuda", "memory"}],
      [name |-> "RuntimeError", message |-> << "CUDA error: device-side assert triggered" >>,
       words |-> {"cuda"}],
      [name |-> "OSError", message |-> << "Unable to load weights of the model" >>,
       words |-> {"model", "load"}],
      [name |-> "ConnectionError", message |-> << "Connection refused" >>, words |-> {}],
      [name |-> "TimeoutError", message |-> << "timed out" >>, words |-> {}],
      [name |-> "FileNotFoundError", message |-> << "No such file or directory" >>, words |-> {}],
      [name |-> "UnicodeDecodeError", message |-> << "invalid start byte" >>, words |-> {}],
      [name |-> "Exception", message |-> << "Read timed out. (read timeout=30)" >>,
       words |-> {"timeout"}],
      [name |-> "ImportError", message |-> << "cannot initialize the tokenizer" >>,
       words |-> {"cannot initialize"}] }

\* what AlephBERTProcessor() can raise in _initialize_models
InitExceptions ==
    { [name |-> "ModuleNotFoundError", message |-> << "No module named 'src.ai'" >>, words |-> {}],
      [name |-> "OSError", message |-> << "Unable to load weights of the model" >>,
       words |-> {"model", "load"}] }

_classify_error(error) ==
    IF "cuda" \in error.words \/ "gpu" \in error.words
    THEN "gpu_memory_error"
    ELSE IF "model" \in error.words /\ ("load" \in error.words \/ "download" \in error.words)
    THEN "model_loading_failed"
    ELSE IF error.name \in {"ConnectionError", "TimeoutError", "HTTPError"}
    THEN "network_connection_error"
    ELSE IF error.name \in {"FileNotFoundError", "PermissionError"}
    THEN "file_not_found"
    ELSE IF "encoding" \in error.words \/ error.name = "UnicodeDecodeError"
    THEN "hebrew_encoding_error"
    ELSE IF "timeout" \in error.words \/ error.name = "TimeoutError"
    THEN "ai_timeout"
    ELSE "unknown_error"

_determine_severity(error, error_type) ==
    IF \E pattern \in {"system", "memory", "cannot initialize"} : pattern \in error.words
    THEN "CRITICAL"
    ELSE IF error_type \in {"model_loading_failed", "gpu_memory_error"}
    THEN "HIGH"
    ELSE IF error_type \in {"network_connection_error", "ai_timeout"}
    THEN "MEDIUM"
    ELSE "LOW"

_suggest_recovery(error_type) ==
    CASE error_type = "model_loading_failed" ->
             "Try reloading model or switch to fallback model"
      [] error_type = "gpu_memory_error" -> "Clear GPU cache and reduce batch size"
      [] error_type = "network_connection_error" -> "Check internet connection and retry"
      [] error_type = "file_not_found" -> "Verify file path and permissions"
      [] error_type = "hebrew_encoding_error" -> "Ensure UTF-8 encoding for Hebrew text"
      [] error_type = "ai_timeout" -> "Reduce query complexity or increase timeout"
      [] error_type = "unknown_error" -> "Check logs for detailed error information"
      [] OTHER -> "Manual intervention required"

\* the keys of _setup_recovery_strategies
recovery_strategies ==
    { "model_loading_failed", "gpu_memory_error", "network_connection_error",
      "file_not_found", "hebrew_encoding_error", "ai_timeout" }

\* the strategy of an error type raises: only _recover_gpu_memory calls
\* anything but the logger, and torch.cuda.empty_cache can fail
StrategyRaises(error_type, torch_fails) ==
    error_type = "gpu_memory_error" /\ torch_fails

\* _attempt_recovery without the try of lines 196-200
_attempt_recovery_propagating(hebrew_error, torch_fails) ==
    IF hebrew_error.error_type \in recovery_strategies
    THEN IF StrategyRaises(hebrew_error.error_type, torch_fails)
         THEN [recovery |-> "failed", raises |-> "RuntimeError"]
         ELSE [recovery |-> "ran", raises |-> None]
    ELSE [recovery |-> "no strategy", raises |-> None]

\* _attempt_recovery: what became of the recovery, and what the call raises
_attempt_recovery(hebrew_error, torch_fails) ==
    IF hebrew_error.error_type \in recovery_strategies
    THEN IF StrategyRaises(hebrew_error.error_type, torch_fails)
         THEN [recovery |-> "failed", raises |-> None]
         ELSE [recovery |-> "ran", raises |-> None]
    ELSE [recovery |-> "no strategy", raises |-> None]

\* handle_error: the history after the call, the record made, what became of
\* the recovery and what the call raises (the timestamp is left out; context
\* is << >> for the empty dict, else << the dict >>)
handle_error(error_history, error, component, context, torch_fails) ==
    LET error_type == _classify_error(error)
        severity == _determine_severity(error, error_type)
        hebrew_error ==
            [error_type |-> error_type, message |-> error.message,
             severity |-> severity, component |-> component, context |-> context,
             recovery_action |-> _suggest_recovery(error_type)]
        attempt == IF severity # "CRITICAL"
                   THEN _attempt_recovery(hebrew_error, torch_fails)
                   ELSE [recovery |-> "not attempted", raises |-> None]
    IN  [error_history |-> Append(error_history, hebrew_error),
         hebrew_error |-> hebrew_error,
         recovery |-> attempt.recovery,
         raises |-> attempt.raises]

\* one handle_error call as the calls made are noted down
Noted(error_history, handled) ==
    [before |-> error_history, after |-> handled.error_history,
     returned |-> handled.hebrew_error, recovery |-> handled.recovery,
     raises |-> handled.raises]

RECURSIVE SplitFrom(_, _, _)
\* str.split(): the runs of non-space characters of text from position k on
SplitFrom(text, k, current) ==
    IF k > Len(text)
    THEN IF current = << >> THEN << >> ELSE << current >>
    ELSE IF IsSpace(text[k])
         THEN (IF current = << >> THEN << >> ELSE << current >>)
                  \o SplitFrom(text, k + 1, << >>)
         ELSE SplitFrom(text, k + 1, Append(current, text[k]))

split(text) == SplitFrom(text, 1, << >>)

_get_basic_analysis(hebrew_text) ==
    LET words == split(hebrew_text)
    IN  [word_count |-> Len(words),
         character_count |-> Len(hebrew_text),
         words |-> SubSeq(words, 1, IF Len(words) < 5 THEN Len(words) ELSE 5),
         has_hebrew_chars |-> \E k \in 1..Len(hebrew_text) :
                                  hebrew_text[k] >= 1424 /\ hebrew_text[k] <= 1535,
         analysis_type |-> "basic_fallback"]

_get_fallback_biblical_analysis(hebrew_text) ==
    [source |-> "Fallback Analysis", confidence |-> 60,
     context |-> "Basic Hebrew text analysis",
     morphology |-> _get_basic_analysis(hebrew_text),
     note |-> "AlephBERT not available - using basic analysis"]

_get_fallback_explanation(hebrew_text) ==
    [source |-> "fallback", words |-> Len(split(hebrew_text))]

\* _get_ollama_explanation raises every exception again as an Exception with
\* 'Ollama connection failed: ' in front of its message
OllamaFailure(error) ==
    [name |-> "Exception", message |-> << "Ollama connection failed: " >> \o error.message,
     words |-> error.words]

\* the processor after __init__: what _check_system_health found, and the
\* AlephBERT model, None when it is not available or failed to initialize
NewProcessor(alephbert_available, ollama_available, gpu_available, init_error) ==
    LET failed == alephbert_available /\ init_error # << >>
    IN  [system_health |-> [alephbert_available |-> alephbert_available,
                            ollama_available |-> ollama_available,
                            gpu_available |-> gpu_available],
         alephbert |-> IF alephbert_available /\ ~failed THEN "AlephBERTProcessor" ELSE None,
         error_history |->
             IF failed
             THEN handle_error(<< >>, init_error[1], "AlephBERT initialization",
                               << >>, FALSE).error_history
             ELSE << >>]

\* value, worked out once, handed to Rest
Then(value, Rest(_)) == CHOOSE r \in { Rest(x) : x \in { value } } : TRUE

\* an exception that handle_error let through
Propagated(raises) ==
    IF raises = None
    THEN << >>
    ELSE << [name |-> raises, message |-> << "recovery failed" >>, words |-> {}] >>

\* lines 389-401: the AlephBERT analysis, or the fallback for it
BiblicalAnalysis(p, hebrew_text, alephbert_raises, torch_fails) ==
    IF p.alephbert # None /\ p.system_health.alephbert_available
    THEN IF alephbert_raises = << >>
         THEN [error_history |-> p.error_history, handled |-> << >>, raises |-> << >>,
               biblical_analysis |-> << [source |-> "AlephBERT"] >>]
         ELSE Then(handle_error(p.error_history, alephbert_raises[1],
                                "AlephBERT analysis", << >>, torch_fails),
                   LAMBDA handled :
                       [error_history |-> handled.error_history,
                        handled |-> << Noted(p.error_history, handled) >>,
                        raises |-> Propagated(handled.raises),
                        biblical_analysis |->
                            << _get_fallback_biblical_analysis(hebrew_text) >>])
    ELSE [error_history |-> p.error_history, handled |-> << >>, raises |-> << >>,
          biblical_analysis |-> << _get_fallback_biblical_analysis(hebrew_text) >>]

\* lines 404-414 after the lines before them gave done: the Ollama
\* explanation, or the fallback for it
TutorExplanation(p, done, hebrew_text, verse_reference, ollama_raises, torch_fails) ==
    IF done.raises # << >>
    THEN [error_history |-> done.error_history, handled |-> done.handled,
          raises |-> done.raises, tutor_explanation |-> << >>]
    ELSE IF p.system_health.ollama_available
    THEN IF ollama_raises = << >>
         THEN [error_history |-> done.error_history, handled |-> done.handled,
               raises |-> << >>, tutor_explanation |-> << [source |-> "Ollama"] >>]
         ELSE Then(handle_error(done.error_history, OllamaFailure(ollama_raises[1]),
                                "Ollama tutoring", << >>, torch_fails),
                   LAMBDA handled :
                       [error_history |-> handled.error_history,
                        handled |-> Append(done.handled,
                                           Noted(done.error_history, handled)),
                        raises |-> Propagated(handled.raises),
                        tutor_explanation |-> << _get_fallback_explanation(hebrew_text) >>])
    ELSE [error_history |-> done.error_history, handled |-> done.handled,
          raises |-> << >>,
          tutor_explanation |-> << _get_fallback_explanation(hebrew_text) >>]

\* _perform_analysis_with_fallbacks with the calls of lines 391 and 407 outside
\* their try blocks
_perform_analysis_without_fallbacks(p, hebrew_text, verse_reference, alephbert_raises, ollama_raises, torch_fails) ==
    LET uses_alephbert == p.alephbert # None /\ p.system_health.alephbert_available
        raised == IF uses_alephbert /\ alephbert_raises # << >>
                  THEN << alephbert_raises[1] >>
                  ELSE IF p.system_health.ollama_available /\ ollama_raises # << >>
                  THEN << OllamaFailure(ollama_raises[1]) >>
                  ELSE << >>
    IN  [error_history |-> p.error_history,
         handled |-> << >>,
         raises |-> raised,
         analysis_result |->
             [original_text |-> hebrew_text, verse_reference |-> verse_reference,
              analysis_status |-> "success",
              biblical_analysis |->
                  << IF uses_alephbert THEN [source |-> "AlephBERT"]
                     ELSE _get_fallback_biblical_analysis(hebrew_text) >>,
              tutor_explanation |->
                  << IF p.system_health.ollama_available THEN [source |-> "Ollama"]
                     ELSE _get_fallback_explanation(hebrew_text) >>]]

\* _perform_analysis_with_fallbacks: the history after it, the handle_error
\* calls it made, the exception it lets through (<< >> for none) and the dict
\* it returns; alephbert_raises and ollama_raises are << >> or << the
\* exception of the model's call >>
_perform_analysis_with_fallbacks(p, hebrew_text, verse_reference, alephbert_raises, ollama_raises, torch_fails) ==
    Then(BiblicalAnalysis(p, hebrew_text, alephbert_raises, torch_fails),
         LAMBDA biblical :
             Then(TutorExplanation(p, biblical, hebrew_text, verse_reference,
                                   ollama_raises, torch_fails),
                  LAMBDA tutor :
                      [error_history |-> tutor.error_history,
                       handled |-> tutor.handled,
                       raises |-> tutor.raises,
                       analysis_result |->
                           [original_text |-> hebrew_text,
                            verse_reference |-> verse_reference,
                            analysis_status |-> "success",
                            biblical_analysis |-> biblical.biblical_analysis,
                            tutor_explanation |-> tutor.tutor_explanation]]))

\* hebrew_text[:50] + "..." if len(hebrew_text) > 50 else hebrew_text
ContextText(hebrew_text) ==
    IF Len(hebrew_text) > 50
    THEN SubSeq(hebrew_text, 1, 50) \o << 46, 46, 46 >>
    ELSE hebrew_text

\* lines 348-374: the except clause of analyze_hebrew_safely for the
\* exception caught, after the handle_error calls noted
GracefulDegradation(error_history, noted, caught, hebrew_text, verse_reference, torch_fails) ==
    Then(handle_error(error_history, caught,
                      "RobustHebrewProcessor.analyze_hebrew_safely",
                      << [hebrew_text |-> ContextText(hebrew_text),
                          verse_reference |-> verse_reference] >>,
                      torch_fails),
         LAMBDA handled :
             [error_history |-> handled.error_history,
              handled |-> Append(noted, Noted(error_history, handled)),
              raises |-> handled.raises,
              returns |->
                  [original_text |-> hebrew_text, verse_reference |-> verse_reference,
                   analysis_status |-> "error",
                   error_info |-> << [type |-> handled.hebrew_error.error_type,
                                      message |-> handled.hebrew_error.message,
                                      severity |-> handled.hebrew_error.severity,
                                      recovery_action |-> handled.hebrew_error.recovery_action] >>,
                   fallback_analysis |-> << _get_basic_analysis(hebrew_text) >>]])

\* analyze_hebrew_safely: the history after it, the handle_error calls made,
\* the exception it raises (None when it returns) and the dict it returns
analyze_hebrew_safely(p, hebrew_text, verse_reference, alephbert_raises, ollama_raises, torch_fails) ==
    IF hebrew_text = << >> \/ strip(hebrew_text) = << >>
    THEN GracefulDegradation(p.error_history, << >>, EmptyText, hebrew_text,
                             verse_reference, torch_fails)
    ELSE Then(_perform_analysis_with_fallbacks(p, hebrew_text, verse_reference,
                                               alephbert_raises, ollama_raises,
                                               torch_fails),
              LAMBDA performed :
                  IF performed.raises = << >>
                  THEN [error_history |-> performed.error_history,
                        handled |-> performed.handled, raises |-> None,
                        returns |-> performed.analysis_result]
                  ELSE GracefulDegradation(performed.error_history, performed.handled,
                                           performed.raises[1], hebrew_text,
                                           verse_reference, torch_fails))

\* the texts analysed: none, blanks, ALEF BET with a space between, a Latin
\* letter
Texts ==
    { << >>, << 32, 10 >>, << 1488, 32, 1489 >>, << 97 >> }

\* what the AlephBERT call of line 391 can raise
AlephBertExceptions ==
    { e \in Exceptions : e.name \in {"RuntimeError", "OSError"} }

\* what the requests of _get_ollama_explanation can raise
OllamaExceptions ==
    { e \in Exceptions : e.name \in {"ConnectionError", "Exception"} }

\* nothing raised, or one of the exceptions
MayRaise(exceptions) == { << >> } \cup { << e >> : e \in exceptions }

\* no processor has been made
NoProcessor ==
    /\ processor = NewProcessor(FALSE, FALSE, FALSE, << >>)
    /\ result = << >>

\* the processors __init__ can leave behind
InitProcessor ==
    /\ processor \in
           { NewProcessor(a, o, g, e) :
               a \in BOOLEAN, o \in BOOLEAN, g \in BOOLEAN,
               e \in { << >> } \cup { << x >> : x \in InitExceptions } }
    /\ result = << >>

\* a call of analyze_hebrew_safely; the AlephBERT and the Ollama call go
\* well or raise, and so does torch.cuda.empty_cache if it is called
AnalyzeHebrewSafely(hebrew_text, alephbert_raises, ollama_raises, torch_fails) ==
    \E done \in { analyze_hebrew_safely(processor, hebrew_text, "Genesis 1:1",
                                          alephbert_raises, ollama_raises, torch_fails) } :
        /\ Len(done.error_history) <= MaxErrors
        /\ processor' = [processor EXCEPT !.error_history = done.error_history]
        /\ result' = << [call |-> "analyze_hebrew_safely", text |-> hebrew_text,
                         before |-> processor.error_history,
                         handled |-> done.handled, raises |-> done.raises,
                         returns |-> done.returns] >>
        /\ UNCHANGED << analyzerVars, databaseVars, sessionVars >>

\* a call of error_handler.handle_error by a component
HandleError(error, component, torch_fails) ==
    \E done \in { handle_error(processor.error_history, error, component, << >>,
                                 torch_fails) } :
        /\ Len(done.error_history) <= MaxErrors
        /\ processor' = [processor EXCEPT !.error_history = done.error_history]
        /\ result' = << [call |-> "handle_error", text |-> << >>,
                         before |-> processor.error_history,
                         handled |-> << Noted(processor.error_history, done) >>,
                         raises |-> done.raises,
                         returns |-> done.hebrew_error] >>
        /\ UNCHANGED << analyzerVars, databaseVars, sessionVars >>

(***************************************************************************)
(* The state machine                                                       *)
(***************************************************************************)

\* the frame of a thread that is not in a call
IdleFrame ==
    [pc |-> "idle", self |-> 0, word |-> << >>, clean_word |-> << >>,
     analysis |-> << >>, overlapped |-> FALSE]

\* what a call leaves behind: the dict it returned, or the exception it raised
Completed(self, w) ==
    IF AnalyzeRaises(w)
    THEN [self |-> self, word |-> w, seq |-> calls + 1, outcome |-> "raised",
          analysis |-> [exception |-> "ZeroDivisionError"]]
    ELSE [self |-> self, word |-> w, seq |-> calls + 1, outcome |-> "returned",
          analysis |-> analyze_word_dynamically(w)]

\* analyze_word_dynamically adding the prefixes it detected to the analyzer's
\* morpheme_database
AnalyzeRecording(self, w) ==
    /\ last' = << Completed(self, w) >>
    /\ first' = IF first = << >> /\ w = input THEN << Completed(self, w) >> ELSE first
    /\ calls' = calls + 1
    /\ others' = IF w = input THEN others ELSE others + 1
    /\ analyzers' =
           [analyzers EXCEPT ![self].morpheme_database.prefixes =
               @ \o [k \in 1..Len(_detect_morphemes(_clean_hebrew_word(w)).prefixes) |->
                        [key |-> _detect_morphemes(_clean_hebrew_word(w)).prefixes[k].morpheme,
                         type |-> "detected"]]]
    /\ UNCHANGED << input, frames >>
    /\ UNCHANGED << databaseVars, sessionVars, processorVars >>

\* analyzer self runs analyze_word_dynamically(w) to its end
Analyze(self, w) ==
    /\ last' = << Completed(self, w) >>
    /\ first' = IF first = << >> /\ w = input THEN << Completed(self, w) >> ELSE first
    /\ calls' = calls + 1
    /\ others' = IF w = input THEN others ELSE others + 1
    /\ UNCHANGED << analyzers, input, frames >>
    /\ UNCHANGED << databaseVars, sessionVars, processorVars >>

InitWith(words) ==
    /\ analyzers = [a \in Analyzers |-> NewAnalyzer]
    /\ input \in words
    /\ calls = 0
    /\ others = 0
    /\ first = << >>
    /\ last = << >>
    /\ frames = [t \in Threads |-> IdleFrame]
    /\ DatabaseCreated
    /\ NoSession
    /\ NoProcessor

\* one analysis of every input word
Init == InitWith(Words)

Next == \E self \in Analyzers : calls = 0 /\ Analyze(self, input)

Spec == Init /\ [][Next]_vars

\* several analyses, on one analyzer or two, of the word under study and of others
InitCalls == InitWith(CallWords)

NextCalls ==
    \E self \in Analyzers, w \in {input} \cup OtherWords :
        calls < MaxCalls /\ Analyze(self, w)

SpecCalls == InitCalls /\ [][NextCalls]_vars

(***************************************************************************)
(* Calls of several threads on one analyzer, a step at a time.  A step is  *)
(* one line of analyze_word_dynamically (lines 23-35); every name a line   *)
(* reads or writes is a local of its call, so a finer interleaving (the    *)
(* interpreter switches threads between bytecodes) reaches the same        *)
(* frames.                                                                 *)
(***************************************************************************)

\* the analyzer instance the threads share
SharedAnalyzer == 1

\* words of the calls of SpecSteps: the empty word, a word with a prefix key
\* and a suffix key, a word that cleaning changes
StepWords ==
    { << >>,
      << 215, 8221, 1491, 1489, 1512, 215, 170 >>,
      << 32, 8482, 97, 8221, 46 >> }

\* thread t is inside a call
InFlight(t) == frames[t].pc \notin {"idle", "done", "raised"}

\* the entry of the call log for a call that ran in steps
Logged(self, w, outcome, analysis) ==
    LET entry == [self |-> self, word |-> w, seq |-> calls + 1,
                  outcome |-> outcome, analysis |-> analysis]
    IN  /\ last' = << entry >>
        /\ first' = IF first = << >> /\ w = input THEN << entry >> ELSE first
        /\ calls' = calls + 1
        /\ others' = IF w = input THEN others ELSE others + 1

\* line 21: thread t calls analyze_word_dynamically(w) on the shared analyzer
StepCall(t, w) ==
    /\ frames[t].pc = "idle"
    /\ frames' = [u \in Threads |->
           IF u = t
           THEN [IdleFrame EXCEPT !.pc = "line23", !.self = SharedAnalyzer, !.word = w,
                                  !.overlapped = \E v \in Threads \ {t} : InFlight(v)]
           ELSE IF InFlight(u) THEN [frames[u] EXCEPT !.overlapped = TRUE]
           ELSE frames[u]]
    /\ UNCHANGED << analyzers, input, calls, others, first, last >>
    /\ UNCHANGED << databaseVars, sessionVars, processorVars >>

\* line 23
StepClean(t) ==
    /\ frames[t].pc = "line23"
    /\ frames' = [frames EXCEPT ![t].clean_word = _clean_hebrew_word(frames[t].word),
                                ![t].pc = "line28"]
    /\ UNCHANGED << analyzers, input, calls, others, first, last >>
    /\ UNCHANGED << databaseVars, sessionVars, processorVars >>

\* lines 26-28 with the cleaned word read from the analyzer instead of from the
\* call's local: it is the cleaned word of any call on the analyzer that has
\* run line 23
StepDetectMorphemesOnInstance(t) ==
    /\ frames[t].pc = "line28"
    /\ \E u \in Threads :
           /\ frames[u].self = frames[t].self
           /\ frames[u].pc \notin {"idle", "line23"}
           /\ frames' = [frames EXCEPT
                  ![t].analysis =
                      [original_word |-> frames[t].word,
                       clean_word |-> frames[u].clean_word,
                       detected_morphemes |-> _detect_morphemes(frames[u].clean_word)],
                  ![t].pc = "line29"]
    /\ UNCHANGED << analyzers, input, calls, others, first, last >>
    /\ UNCHANGED << databaseVars, sessionVars, processorVars >>

\* lines 26-28
StepDetectMorphemes(t) ==
    /\ frames[t].pc = "line28"
    /\ frames' = [frames EXCEPT
           ![t].analysis =
               [original_word |-> frames[t].word,
                clean_word |-> frames[t].clean_word,
                detected_morphemes |-> _detect_morphemes(frames[t].clean_word)],
           ![t].pc = "line29"]
    /\ UNCHANGED << analyzers, input, calls, others, first, last >>
    /\ UNCHANGED << databaseVars, sessionVars, processorVars >>

\* line 29
StepClassify(t) ==
    /\ frames[t].pc = "line29"
    /\ frames' = [frames EXCEPT
           ![t].analysis = @ @@ ("grammatical_category" :>
                                     _classify_grammatically(frames[t].clean_word)),
           ![t].pc = "line30"]
    /\ UNCHANGED << analyzers, input, calls, others, first, last >>
    /\ UNCHANGED << databaseVars, sessionVars, processorVars >>

\* line 30
StepExtractRoot(t) ==
    /\ frames[t].pc = "line30"
    /\ frames' = [frames EXCEPT
           ![t].analysis = @ @@ ("root_extraction" :>
                                     _extract_root_algorithmically(frames[t].clean_word)),
           ![t].pc = "line31"]
    /\ UNCHANGED << analyzers, input, calls, others, first, last >>
    /\ UNCHANGED << databaseVars, sessionVars, processorVars >>

\* line 31
StepDetectFeatures(t) ==
    /\ frames[t].pc = "line31"
    /\ frames' = [frames EXCEPT
           ![t].analysis = @ @@ ("morphological_features" :>
                                     _detect_morphological_features(frames[t].clean_word)),
           ![t].pc = "line32"]
    /\ UNCHANGED << analyzers, input, calls, others, first, last >>
    /\ UNCHANGED << databaseVars, sessionVars, processorVars >>

\* line 32: the score, or the exception of line 284 leaving the call
StepConfidence(t) ==
    /\ frames[t].pc = "line32"
    /\ IF ConfidenceRaises(frames[t].clean_word)
       THEN /\ frames' = [frames EXCEPT ![t].pc = "raised"]
            /\ Logged(frames[t].self, frames[t].word, "raised",
                      [exception |-> "ZeroDivisionError"])
       ELSE /\ frames' = [frames EXCEPT
                   ![t].analysis = @ @@ ("confidence_score" :>
                                             _calculate_dynamic_confidence(frames[t].clean_word)),
                   ![t].pc = "line35"]
            /\ UNCHANGED << calls, others, first, last >>
    /\ UNCHANGED << analyzers, input >>
    /\ UNCHANGED << databaseVars, sessionVars, processorVars >>

\* line 35
StepReturn(t) ==
    /\ frames[t].pc = "line35"
    /\ frames' = [frames EXCEPT ![t].pc = "done"]
    /\ Logged(frames[t].self, frames[t].word, "returned", frames[t].analysis)
    /\ UNCHANGED << analyzers, input >>
    /\ UNCHANGED << databaseVars, sessionVars, processorVars >>

InitSteps == InitWith(StepWords)

NextSteps ==
    \E t \in Threads :
        \/ \E w \in {input} \cup OtherWords : StepCall(t, w)
        \/ StepClean(t)
        \/ StepDetectMorphemes(t)
        \/ StepClassify(t)
        \/ StepExtractRoot(t)
        \/ StepDetectFeatures(t)
        \/ StepConfidence(t)
        \/ StepReturn(t)

SpecSteps == InitSteps /\ [][NextSteps]_vars

\* no analyzer is in use
AnalyzersIdle ==
    /\ analyzers = [a \in Analyzers |-> NewAnalyzer]
    /\ input = << >>
    /\ calls = 0
    /\ others = 0
    /\ first = << >>
    /\ last = << >>
    /\ frames = [t \in Threads |-> IdleFrame]

\* sessions are started as the days pass, and progress statistics are asked for
InitDatabase == AnalyzersIdle /\ DatabaseCreated /\ NoSession /\ NoProcessor

NextDatabase ==
    \/ \E user_id \in Users : StartStudySession(user_id)
    \/ Midnight
    \/ \E user_id \in Users, days \in DaysAsked : GetProgressStats(user_id, days)

SpecDatabase == InitDatabase /\ [][NextDatabase]_vars

\* the web application after startup_event, answering study-verse requests
InitSession ==
    /\ AnalyzersIdle
    /\ DatabaseCreated
    /\ tanakh_session \in StartedSessions
    /\ updates = [w \in LearnableWords |-> 0]
    /\ response = << >>
    /\ NoProcessor

NextSession ==
    \E request \in Requests, answers \in AnswerChoices : StudyVerseApi(request, answers)

SpecSession == InitSession /\ [][NextSession]_vars

\* a processor analysing texts, and components reporting errors to its handler
InitProcessorSpec == AnalyzersIdle /\ DatabaseCreated /\ NoSession /\ InitProcessor

NextProcessor ==
    \/ \E hebrew_text \in Texts, alephbert_raises \in MayRaise(AlephBertExceptions),
          ollama_raises \in MayRaise(OllamaExceptions), torch_fails \in BOOLEAN :
           AnalyzeHebrewSafely(hebrew_text, alephbert_raises, ollama_raises, torch_fails)
    \/ \E error \in Exceptions, torch_fails \in BOOLEAN :
           HandleError(error, "client", torch_fails)

SpecProcessor == InitProcessorSpec /\ [][NextProcessor]_vars

(***************************************************************************)
(* Properties                                                              *)
(***************************************************************************)

\* a call has completed by returning its dict
Returned == last # << >> /\ last[1].outcome = "returned"

RECURSIVE MorphemeTexts(_)
\* the texts of a list of morpheme spans, joined in list order
MorphemeTexts(spans) ==
    IF spans = << >> THEN << >> ELSE Head(spans).morpheme \o MorphemeTexts(Tail(spans))

\* the function tags of a list of morpheme spans, in list order
Functions(spans) == [k \in 1..Len(spans) |-> spans[k].function]

\* a letter of the Hebrew alphabet, U+05D0..U+05EA
IsHebrewLetter(c) == c >= 1488 /\ c <= 1514

\* s is made of head, then exactly (or at least) n Hebrew letters, then tail
HasShape(s, head, tail, n, orMore) ==
    /\ startswith(s, head)
    /\ endswith(s, tail)
    /\ Len(s) >= Len(head) + Len(tail) + n
    /\ orMore \/ Len(s) = Len(head) + Len(tail) + n
    /\ \A k \in (Len(head) + 1)..(Len(s) - Len(tail)) : IsHebrewLetter(s[k])

\* the key of prefix_patterns with the given tag
PrefixKey(tag) ==
    prefix_patterns[CHOOSE k \in 1..Len(prefix_patterns) :
                        prefix_patterns[k].meaning = tag].prefix

\* the key of suffix_patterns with the given tag
SuffixKey(tag) ==
    suffix_patterns[CHOOSE k \in 1..Len(suffix_patterns) :
                        suffix_patterns[k].meaning = tag].suffix

\* C1: Losslessness: the morpheme texts of the detected prefixes, in list
\* order, then the stem, then the morpheme text of the detected suffix,
\* concatenated, are the cleaned word.
C1_Lossless ==
    Returned =>
        LET m == last[1].analysis.detected_morphemes
        IN  MorphemeTexts(m.prefixes) \o m.stem \o MorphemeTexts(m.suffixes)
                = last[1].analysis.clean_word

\* C2 as stated: the analysis of the empty string returns with confidence_score
\* 0.0 and primary category 'unknown'.
C2_EmptyIsUnknownAtZero ==
    (last # << >> /\ last[1].word = << >>) =>
        /\ last[1].outcome = "returned"
        /\ last[1].analysis.confidence_score = 0
        /\ last[1].analysis.grammatical_category.primary_category = "unknown"

\* C2 as amended: the analysis of the empty string returns without raising,
\* with confidence_score 0.4 and primary category 'particle'.
C2_EmptyIsParticleAtFortyHundredths ==
    (last # << >> /\ last[1].word = << >>) =>
        /\ last[1].outcome = "returned"
        /\ last[1].analysis.confidence_score = 40
        /\ last[1].analysis.grammatical_category.primary_category = "particle"

\* the empty string has been analysed
C2_EmptyAnalyzed == Returned /\ last[1].word = << >>

\* C3: every call, whatever its input string, ends by returning (not raising)
\* a record that has the seven fields original_word, clean_word,
\* detected_morphemes, grammatical_category, root_extraction,
\* morphological_features and confidence_score.
C3_AlwaysReturnsFullRecord ==
    last # << >> =>
        /\ last[1].outcome = "returned"
        /\ DOMAIN last[1].analysis =
               {"original_word", "clean_word", "detected_morphemes",
                "grammatical_category", "root_extraction",
                "morphological_features", "confidence_score"}

\* a non-empty input of whitespace and punctuation only has been analysed
C3_DegenerateAnalyzed ==
    /\ Returned
    /\ last[1].word # << >>
    /\ \A k \in 1..Len(last[1].word) : last[1].word[k] \in {32, 46}
    /\ last[1].analysis.clean_word = << >>

C5_ConfidenceIsRoundedMean ==
    Returned =>
        LET a == last[1].analysis
            lengthFactor == IF Len(a.clean_word) \in 2..8 THEN 100 ELSE 50
            patternFactor == IF \/ _matches_verb_patterns(a.clean_word)
                                \/ _matches_noun_patterns(a.clean_word)
                             THEN 80 ELSE 40
            stemFactor == IF a.detected_morphemes.stem # << >> THEN 70 ELSE 30
            total == lengthFactor + patternFactor + stemFactor
        IN  3 * a.confidence_score - total \in -1..1

\* an analysis with an empty stem has been returned: its third factor is 0.3
C5_EmptyStemScored ==
    /\ Returned
    /\ last[1].analysis.detected_morphemes.stem = << >>
    /\ last[1].analysis.confidence_score = 40

\* C6: Confidence bounds: confidence_score is in [0.0, 1.0] (0..100 hundredths).
C6_ConfidenceInUnitInterval ==
    Returned =>
        /\ last[1].analysis.confidence_score >= 0
        /\ last[1].analysis.confidence_score <= 100

\* an analysis with all three factors at their highest has been returned
C6_HighestScore == Returned /\ last[1].analysis.confidence_score = 83

\* C7: Suffix exclusivity: the suffixes list holds at most one span.
C7_AtMostOneSuffix ==
    Returned => Len(last[1].analysis.detected_morphemes.suffixes) <= 1

\* one suffix was stripped and what is left again ends with a known suffix
\* shorter than it
C7_StemEndsWithSuffix ==
    /\ Returned
    /\ Len(last[1].analysis.detected_morphemes.suffixes) = 1
    /\ \E k \in 1..Len(suffix_patterns) :
           /\ endswith(last[1].analysis.detected_morphemes.stem, suffix_patterns[k].suffix)
           /\ Len(last[1].analysis.detected_morphemes.stem) > Len(suffix_patterns[k].suffix)

\* C8: Idempotence of cleaning: cleaning the cleaned word gives the cleaned
\* word; the cleaned word does not end with a codepoint of the stripped class
\* and neither starts nor ends with whitespace.
C8_CleaningIdempotent ==
    Returned =>
        LET c == last[1].analysis.clean_word
        IN  /\ _clean_hebrew_word(c) = c
            /\ c # << >> =>
                   /\ c[Len(c)] \notin {215, 402, 46, 44, 59, 33, 63}
                   /\ ~IsSpace(c[Len(c)])
                   /\ ~IsSpace(c[1])

\* cleaning removed something at both ends and left something
C8_CleanedBothEnds ==
    /\ Returned
    /\ last[1].analysis.clean_word # << >>
    /\ IsSpace(last[1].word[1])
    /\ last[1].word[Len(last[1].word)] = 46

\* the definite article: the key tagged definite_article, or the letter HE
DefiniteArticles == { PrefixKey("definite_article"), << 1492 >> }

\* the masculine plural: the key tagged masculine_plural, or YOD FINAL-MEM
MasculinePlurals == { SuffixKey("masculine_plural"), << 1497, 1501 >> }

\* C9: Example 1: a token made of the definite article, at least three
\* consonants and the masculine-plural suffix has prefixes exactly
\* [definite_article], primary category 'noun' and one suffix span whose
\* function is masculine_plural.
C9_Example1 ==
    (/\ Returned
     /\ \E art \in DefiniteArticles, pl \in MasculinePlurals :
            HasShape(last[1].word, art, pl, 3, TRUE)) =>
        LET a == last[1].analysis
        IN  /\ Functions(a.detected_morphemes.prefixes) = << "definite_article" >>
            /\ a.grammatical_category.primary_category = "noun"
            /\ Functions(a.detected_morphemes.suffixes) = << "masculine_plural" >>

\* the conjunction: the key tagged conjunction_waw, or the letter VAV
Conjunctions == { PrefixKey("conjunction_waw"), << 1493 >> }

\* the preposition 'in/with': the key tagged preposition_in, or the letter BET
PrepositionsIn == { PrefixKey("preposition_in"), << 1489 >> }

\* C10: Example 2: a token made of the conjunction, the preposition 'in/with'
\* and a stem of three consonants has exactly the two prefix spans
\* [conjunction, preposition_in], a non-empty stem, root_length 3 and root
\* confidence 'medium'.
C10_Example2 ==
    (/\ Returned
     /\ \E cj \in Conjunctions, pr \in PrepositionsIn :
            HasShape(last[1].word, cj \o pr, << >>, 3, FALSE)) =>
        LET a == last[1].analysis
        IN  /\ Functions(a.detected_morphemes.prefixes)
                   = << "conjunction_waw", "preposition_in" >>
            /\ a.detected_morphemes.stem # << >>
            /\ a.root_extraction.root_length = 3
            /\ a.root_extraction.confidence = "medium"


\* s starts with a key of prefix_patterns
StartsWithKnownPrefix(s) ==
    \E k \in 1..Len(prefix_patterns) : startswith(s, prefix_patterns[k].prefix)

\* s ends with a key of suffix_patterns
EndsWithKnownSuffix(s) ==
    \E k \in 1..Len(suffix_patterns) : endswith(s, suffix_patterns[k].suffix)

\* a cleaned word of two codepoints with no known prefix in front and no known
\* suffix behind has been analysed
TwoCharacterNoAffix ==
    /\ Returned
    /\ Len(last[1].analysis.clean_word) = 2
    /\ ~StartsWithKnownPrefix(last[1].analysis.clean_word)
    /\ ~EndsWithKnownSuffix(last[1].analysis.clean_word)

\* C11 as stated: every 2-character cleaned token that does not start with a
\* known prefix and does not end with a known suffix has primary category
\* 'particle' and a stem equal to the cleaned token.
C11_TwoCharacterIsParticle ==
    TwoCharacterNoAffix =>
        /\ last[1].analysis.grammatical_category.primary_category = "particle"
        /\ last[1].analysis.detected_morphemes.stem = last[1].analysis.clean_word

\* C11 as amended: every such token whose first codepoint is not in the
\* verbal-prefix class or whose last codepoint is not in the verbal-ending
\* class has primary category 'particle' and a stem equal to the cleaned
\* token.
C11_TwoCharacterNoVerbIsParticle ==
    (/\ TwoCharacterNoAffix
     /\ \/ last[1].analysis.clean_word[1] \notin verbal_prefixes
        \/ last[1].analysis.clean_word[2] \notin verbal_endings) =>
        /\ last[1].analysis.grammatical_category.primary_category = "particle"
        /\ last[1].analysis.detected_morphemes.stem = last[1].analysis.clean_word

\* such a token that starts with a codepoint of the verbal-prefix class and
\* does not end with one of the verbal-ending class has been analysed
C11_OneIndicatorToken ==
    /\ TwoCharacterNoAffix
    /\ last[1].analysis.clean_word[1] \in verbal_prefixes
    /\ last[1].analysis.clean_word[2] \notin verbal_endings
    /\ last[1].analysis.clean_word # last[1].word

\* the working word when the prefix loop ends: the stem with the text of the
\* stripped suffix put back behind it
ResidualAfterPrefixes(a) ==
    a.detected_morphemes.stem \o MorphemeTexts(a.detected_morphemes.suffixes)

\* C12: Prefix stripping runs to a fixpoint: when it ends, the residual (the
\* word before suffix stripping) has length 1 or does not start with a known
\* prefix.  (That stacked prefixes are all stripped, whatever their order,
\* rests on this: a prefix left in front of the residual was not stripped.)
C12_PrefixFixpoint ==
    Returned =>
        LET r == ResidualAfterPrefixes(last[1].analysis)
        IN  Len(r) = 1 \/ ~StartsWithKnownPrefix(r)

\* C13: the stem is empty only if the cleaned token has at most one
\* character, and the analysis of a token that cleans to at most one character
\* returns and does not raise.
C13_EmptyStemOnlyIfDegenerate ==
    last # << >> =>
        /\ Len(_clean_hebrew_word(last[1].word)) <= 1 => last[1].outcome = "returned"
        /\ (Returned /\ last[1].analysis.detected_morphemes.stem = << >>) =>
               Len(last[1].analysis.clean_word) <= 1

\* a word of two codepoints or more has been analysed and its stem is empty
C13_EmptyStemReturned ==
    /\ Returned
    /\ Len(last[1].word) >= 2
    /\ last[1].analysis.detected_morphemes.stem = << >>
    /\ last[1].analysis.root_extraction.root_length = 0

\* C14: classification is first-match-wins in the order verb, noun, particle,
\* unknown, on the cleaned token: 'verb' iff the verb heuristic matches it;
\* 'noun' iff the verb heuristic does not and the noun heuristic does;
\* 'particle' iff neither does and its length is at most 3; 'unknown' in every
\* other case.
C14_FirstMatchWins ==
    Returned =>
        LET w == last[1].analysis.clean_word
            primary == last[1].analysis.grammatical_category.primary_category
            verb == _matches_verb_patterns(w)
            noun == _matches_noun_patterns(w)
        IN  /\ primary \in {"verb", "noun", "particle", "unknown"}
            /\ primary = "verb" <=> verb
            /\ primary = "noun" <=> (~verb /\ noun)
            /\ primary = "particle" <=> (~verb /\ ~noun /\ Len(w) <= 3)
            /\ primary = "unknown" <=> (~verb /\ ~noun /\ Len(w) > 3)

\* both heuristics match the cleaned token, the verb heuristic does not match
\* the stem, and the token came out as a verb
C14_VerbBeforeNoun ==
    /\ Returned
    /\ _matches_verb_patterns(last[1].analysis.clean_word)
    /\ _matches_noun_patterns(last[1].analysis.clean_word)
    /\ ~_matches_verb_patterns(last[1].analysis.detected_morphemes.stem)
    /\ last[1].analysis.grammatical_category.primary_category = "verb"

\* a codepoint of the Hebrew block U+0590..U+05FF or of the Hebrew
\* presentation forms U+FB1D..U+FB4F
IsHebrewCodepoint(c) == (c >= 1424 /\ c <= 1535) \/ (c >= 64285 /\ c <= 64335)

\* C15: for every input that contains no Hebrew codepoint, no Hebrew-specific
\* pattern check fires (no prefix and no suffix is detected, neither the verb
\* nor the noun heuristic matches) and the primary category is 'unknown'.
C15_NonHebrewIsUnknown ==
    (/\ Returned
     /\ \A k \in 1..Len(last[1].word) : ~IsHebrewCodepoint(last[1].word[k])) =>
        LET a == last[1].analysis
        IN  /\ a.detected_morphemes.prefixes = << >>
            /\ a.detected_morphemes.suffixes = << >>
            /\ ~_matches_verb_patterns(a.clean_word)
            /\ ~_matches_noun_patterns(a.clean_word)
            /\ a.grammatical_category.primary_category = "unknown"

\* C16: when the steps of the calls of several threads on one analyzer are
\* interleaved in any order, each call ends as it ends when run alone: it
\* returns the analysis a call that runs from its first line to its last with
\* no other call in between returns for its word.
C16_InterleavedAsAlone ==
    \A t \in Threads :
        /\ frames[t].pc = "done" =>
               /\ ~AnalyzeRaises(frames[t].word)
               /\ frames[t].analysis = analyze_word_dynamically(frames[t].word)
        /\ frames[t].pc = "raised" => AnalyzeRaises(frames[t].word)

\* two calls on the same analyzer and on different words, each begun before
\* the other had ended, have both returned
C16_OverlappingCallsReturned ==
    \E t, u \in Threads :
        /\ t # u
        /\ frames[t].pc = "done" /\ frames[u].pc = "done"
        /\ frames[t].overlapped /\ frames[u].overlapped
        /\ frames[t].self = frames[u].self
        /\ frames[t].word # frames[u].word
        /\ frames[t].analysis # frames[u].analysis

\* C17: the pattern tables hebrew_patterns and morpheme_database of every
\* analyzer hold, after any sequence of analyses, the contents __init__ gave
\* them.
C17_TablesUnchanged ==
    \A a \in Analyzers :
        /\ analyzers[a].hebrew_patterns = _create_pattern_database
        /\ analyzers[a].morpheme_database = _load_morpheme_database

\* an analyzer has run MaxCalls analyses, of two words at least, and the last
\* one detected a prefix
C17_SeveralAnalysesDone ==
    /\ calls = MaxCalls
    /\ others >= 1 /\ others < calls
    /\ first # << >> /\ first[1].self = last[1].self
    /\ Returned
    /\ last[1].analysis.detected_morphemes.prefixes # << >>

\* C18: whenever the primary category is 'unknown' the list secondary_features
\* is empty.
C18_UnknownHasNoFeatures ==
    (Returned /\ last[1].analysis.grammatical_category.primary_category = "unknown") =>
        last[1].analysis.grammatical_category.secondary_features = << >>

\* a cleaned word of more than 3 codepoints came out as 'unknown'
C18_UnknownReturned ==
    /\ Returned
    /\ last[1].analysis.grammatical_category.primary_category = "unknown"
    /\ last[1].analysis.grammatical_category.reasoning = "pattern not clearly identified"
    /\ Len(last[1].analysis.clean_word) > 3

\* the working word when the prefix loop ends, read off the cleaned word: each
\* detected prefix took one codepoint off its front (line 67)
ResidualBeforeSuffix(a) == SliceFrom(a.clean_word, Len(a.detected_morphemes.prefixes))

\* the entries of suffix_patterns that s ends with and that are shorter than s
QualifyingSuffixes(s) ==
    { k \in 1..Len(suffix_patterns) :
          /\ endswith(s, suffix_patterns[k].suffix)
          /\ Len(suffix_patterns[k].suffix) < Len(s) }

\* C19: Suffix stripping is longest-match: the suffix stripped from the
\* residual of prefix removal is the longest entry of the known-suffix set
\* that the residual ends with and that is strictly shorter than it, and the
\* stem is the residual without it; if no entry qualifies nothing is stripped
\* and the suffix list is empty.
C19_LongestSuffixStripped ==
    Returned =>
        LET a == last[1].analysis
            r == ResidualBeforeSuffix(a)
            q == QualifyingSuffixes(r)
        IN  IF q = {}
            THEN /\ a.detected_morphemes.suffixes = << >>
                 /\ a.detected_morphemes.stem = r
            ELSE /\ Len(a.detected_morphemes.suffixes) = 1
                 /\ \E k \in q :
                        /\ a.detected_morphemes.suffixes[1].morpheme = suffix_patterns[k].suffix
                        /\ a.detected_morphemes.suffixes[1].function = suffix_patterns[k].meaning
                        /\ \A j \in q : Len(suffix_patterns[j].suffix)
                                            <= Len(suffix_patterns[k].suffix)
                        /\ a.detected_morphemes.stem \o suffix_patterns[k].suffix = r

\* the residual ended with two known suffixes of different lengths, the shorter
\* one ahead of the longer one in suffix_patterns, and the longer was stripped
C19_LongerOfTwoStripped ==
    /\ Returned
    /\ Len(last[1].analysis.detected_morphemes.suffixes) = 1
    /\ \E j, k \in QualifyingSuffixes(ResidualBeforeSuffix(last[1].analysis)) :
           /\ j < k
           /\ Len(suffix_patterns[j].suffix) < Len(suffix_patterns[k].suffix)
           /\ last[1].analysis.detected_morphemes.suffixes[1].morpheme
                  = suffix_patterns[k].suffix

\* the number of codepoints of s outside the diacritic range U+0591..U+05C7
UndottedLength(s) == Cardinality({ k \in 1..Len(s) : ~IsAccentOrPoint(s[k]) })

\* C20: the verb heuristic matches a token exactly when at least two of these
\* hold: (a) the token without its Hebrew diacritics has length at least 3;
\* (b) its last character is in the verbal-ending set; (c) its first character
\* is in the verbal-prefix set.  (The heuristic is run on the cleaned token and
\* decides the category 'verb'.)
C20_VerbIffTwoOfThree ==
    Returned =>
        LET w == last[1].analysis.clean_word
            a == UndottedLength(w) >= 3
            b == w # << >> /\ w[Len(w)] \in verbal_endings
            c == w # << >> /\ w[1] \in verbal_prefixes
            twoOfThree == (a /\ b) \/ (a /\ c) \/ (b /\ c)
        IN  /\ _matches_verb_patterns(w) <=> twoOfThree
            /\ last[1].analysis.grammatical_category.primary_category = "verb"
                   <=> twoOfThree

\* a word that ended with a line feed has been analysed: its cleaned token
\* has a diacritic-free length of 3 and neither of the other two indicators,
\* and it did not come out as a verb
C20_LengthAloneIsNoVerb ==
    /\ Returned
    /\ last[1].word # << >>
    /\ last[1].word[Len(last[1].word)] = 10
    /\ UndottedLength(last[1].analysis.clean_word) = 3
    /\ last[1].analysis.clean_word[1] \notin verbal_prefixes
    /\ last[1].analysis.clean_word[Len(last[1].analysis.clean_word)] \notin verbal_endings
    /\ last[1].analysis.grammatical_category.primary_category # "verb"


\* C21: Root extraction: extracted_root is the stem of the same analysis with
\* every codepoint of U+0591..U+05C7 removed, root_length is its length, and
\* the root confidence is 'medium' iff 2 <= root_length <= 4, 'low' otherwise.
C21_RootIsUndottedStem ==
    Returned =>
        LET a == last[1].analysis
            root == a.root_extraction
        IN  /\ root.extracted_root
                   = SelectSeq(a.detected_morphemes.stem, LAMBDA c : c < 1425 \/ c > 1479)
            /\ root.root_length = Len(root.extracted_root)
            /\ root.confidence \in {"medium", "low"}
            /\ root.confidence = "medium" <=> (2 <= root.root_length /\ root.root_length <= 4)

\* a prefix and a suffix were stripped from a word with a point in its stem,
\* and the root is the three letters left
C21_PointedStemRoot ==
    /\ Returned
    /\ last[1].analysis.detected_morphemes.prefixes # << >>
    /\ last[1].analysis.detected_morphemes.suffixes # << >>
    /\ \E k \in 1..Len(last[1].analysis.detected_morphemes.stem) :
           IsAccentOrPoint(last[1].analysis.detected_morphemes.stem[k])
    /\ last[1].analysis.root_extraction.root_length = 3
    /\ last[1].analysis.root_extraction.confidence = "medium"


\* a vowel sign: SHEVA, the HATAF vowels and the vowels HIRIQ to QUBUTS
\* (U+05B0..U+05BB), and QAMATS QATAN (U+05C7)
IsVowelSign(c) == (c >= 1456 /\ c <= 1467) \/ c = 1479

\* C22: Syllable estimate: syllable_count is max(1, number of codepoints of
\* the cleaned word that are vowel signs); a cantillation mark adds nothing,
\* and the count is at least 1 for every input, the empty word included.
C22_SyllablesAreVowelSigns ==
    Returned =>
        LET w == last[1].analysis.clean_word
            vowels == Cardinality({ k \in 1..Len(w) : IsVowelSign(w[k]) })
            count == last[1].analysis.morphological_features.syllable_count
        IN  /\ count = IF vowels > 1 THEN vowels ELSE 1
            /\ count >= 1


\* C23: Prefix spans are recorded in application order, outermost first: span
\* i of the prefixes list has for morpheme the i-th character of the cleaned
\* word and for function the tag of that character in the prefix table.
C23_PrefixSpansAreLeadingCharacters ==
    Returned =>
        LET a == last[1].analysis
            spans == a.detected_morphemes.prefixes
        IN  \A i \in 1..Len(spans) :
                /\ i <= Len(a.clean_word)
                /\ spans[i].morpheme = << a.clean_word[i] >>
                /\ \E k \in 1..Len(prefix_patterns) :
                       /\ prefix_patterns[k].prefix = << a.clean_word[i] >>
                       /\ prefix_patterns[k].meaning = spans[i].function

\* the third confidence factor of an analysis, read off its score: the score
\* is the rounded mean of the three factors
StemFactorIs(a, factor) ==
    LET lengthFactor == IF Len(a.clean_word) \in 2..8 THEN 100 ELSE 50
        patternFactor == IF a.grammatical_category.primary_category \in {"verb", "noun"}
                         THEN 80 ELSE 40
    IN  3 * a.confidence_score - (lengthFactor + patternFactor + factor) \in -1..1

\* C24: the stem is empty if and only if the cleaned word is empty; every
\* non-empty cleaned word, a single-character one included (its stem is the
\* word), has a non-empty stem and gets the stem factor 0.7.
C24_StemEmptyIffWordEmpty ==
    Returned =>
        LET a == last[1].analysis
        IN  /\ a.detected_morphemes.stem = << >> <=> a.clean_word = << >>
            /\ Len(a.clean_word) = 1 => a.detected_morphemes.stem = a.clean_word
            /\ a.clean_word # << >> => StemFactorIs(a, 70)
            /\ a.clean_word = << >> => StemFactorIs(a, 30)

\* a word that is a prefix key and nothing else has been analysed: one
\* codepoint of it is left as the stem
C24_KeyAloneAnalyzed ==
    /\ Returned
    /\ \E k \in 1..Len(prefix_patterns) :
           last[1].analysis.clean_word = prefix_patterns[k].prefix
    /\ Len(last[1].analysis.detected_morphemes.prefixes) = 1
    /\ Len(last[1].analysis.detected_morphemes.stem) = 1

\* the place of a function tag in prefix_patterns
TableOrder(tag) == CHOOSE k \in 1..Len(prefix_patterns) : prefix_patterns[k].meaning = tag

\* C25: Prefix stripping makes one pass over the prefix table in its order
\* (definite article, conjunction, in, like, to, from, relative pronoun): the
\* functions of the prefixes list are tags of the table in strictly
\* increasing table order, so each occurs at most once, and at most seven
\* prefixes are stripped.
C25_OnePassInTableOrder ==
    Returned =>
        LET spans == last[1].analysis.detected_morphemes.prefixes
        IN  /\ [k \in 1..Len(prefix_patterns) |-> prefix_patterns[k].meaning]
                   = << "definite_article", "conjunction_waw", "preposition_in",
                        "preposition_like", "preposition_to", "preposition_from",
                        "relative_pronoun" >>
            /\ \A i \in 1..Len(spans) :
                   \E k \in 1..Len(prefix_patterns) :
                       prefix_patterns[k].meaning = spans[i].function
            /\ \A i, j \in 1..Len(spans) :
                   i < j => TableOrder(spans[i].function) < TableOrder(spans[j].function)
            /\ \A i, j \in 1..Len(spans) :
                   i # j => spans[i].function # spans[j].function
            /\ Len(spans) <= 7

\* two prefixes were stripped from a word that began with the same key twice
C25_TwoPrefixesStripped ==
    /\ Returned
    /\ Len(last[1].analysis.detected_morphemes.prefixes) = 2
    /\ Len(last[1].analysis.clean_word) >= 2
    /\ last[1].analysis.clean_word[1] = last[1].analysis.clean_word[2]


\* the calendar day before a date
yesterday(date) ==
    IF date.day > 1
    THEN [date EXCEPT !.day = @ - 1]
    ELSE IF date.month > 1
         THEN [date EXCEPT !.month = @ - 1, !.day = DaysInMonth(date.year, date.month - 1)]
         ELSE [year |-> date.year - 1, month |-> 12, day |-> 31]

RECURSIVE StudyRun(_, _)
\* number of calendar days in a row, from date backwards, that are in days
StudyRun(date, days) ==
    IF date \in days THEN 1 + StudyRun(yesterday(date), days) ELSE 0

\* C26: _calculate_study_streak returns the number of consecutive calendar
\* days of study ending at the most recent study date, for every list of
\* session dates that _get_progress_stats hands it (one date per session,
\* newest first, a day with several sessions several times); 0 for no date.
C26_StreakIsConsecutiveDays ==
    progress_stats # << >> =>
        LET dates == progress_stats[1].dates
            streak == progress_stats[1].stats.study_streak
        IN  IF dates = << >>
            THEN streak = 0
            ELSE streak = StudyRun(dates[1], Range(dates))

\* C27: study_verse_api answers 503 when no session is available, 404
\* whenever study_verse returns no result, and 200 with the study otherwise;
\* it answers 500 for none of these.
C27_StatusByOutcome ==
    response # << >> =>
        LET r == response[1]
        IN  /\ ~r.session_available => r.status_code = 503
            /\ r.session_available /\ r.verse_study = << >> => r.status_code = 404
            /\ r.session_available /\ r.verse_study # << >> => r.status_code = 200
            /\ r.status_code # 500

\* the place of a mastery level among the levels
LevelRank(mastery_level) ==
    CASE mastery_level = "beginner" -> 1
      [] mastery_level = "intermediate" -> 2
      [] mastery_level = "advanced" -> 3
      [] mastery_level = "mastered" -> 4

\* the words of the vocabulary that _update_word_learning added
AddedByUpdate ==
    IF tanakh_session = << >>
    THEN {}
    ELSE { w \in LearnableWords :
             /\ w \in DOMAIN tanakh_session[1].vocabulary
             /\ w \notin tanakh_session[1].progress_loaded }

\* C28: for a word first added by _update_word_learning, every later
\* _update_word_learning call raises times_studied by exactly 1, never lowers
\* confidence_level nor lets it exceed 1.0, and never lowers mastery_level;
\* after n updates in all the level is beginner for n < 3, intermediate for
\* 3 <= n < 5, advanced for 5 <= n < 10 and mastered for n >= 10.
C28_VocabularyProgress ==
    \A w \in AddedByUpdate :
        LET entry == tanakh_session[1].vocabulary[w]
            n == updates[w]
            later == _update_word_learning(tanakh_session[1].vocabulary, w, "AlephBERT")[w]
        IN  /\ n >= 1
            /\ entry.times_studied = n
            /\ entry.confidence_level <= 100
            /\ entry.mastery_level =
                   (IF n < 3 THEN "beginner"
                    ELSE IF n < 5 THEN "intermediate"
                    ELSE IF n < 10 THEN "advanced" ELSE "mastered")
            /\ later.times_studied = entry.times_studied + 1
            /\ later.confidence_level >= entry.confidence_level
            /\ later.confidence_level <= 100
            /\ LevelRank(later.mastery_level) >= LevelRank(entry.mastery_level)
            /\ later.mastery_level =
                   (IF n + 1 < 3 THEN "beginner"
                    ELSE IF n + 1 < 5 THEN "intermediate"
                    ELSE IF n + 1 < 10 THEN "advanced" ELSE "mastered")

\* a word added by _update_word_learning has been updated ten times
C28_WordMastered ==
    \E w \in AddedByUpdate :
        /\ updates[w] = 10
        /\ tanakh_session[1].vocabulary[w].mastery_level = "mastered"
        /\ tanakh_session[1].vocabulary[w].confidence_level = 100

\* C29: analyze_hebrew_safely never raises for a string: for an empty or
\* whitespace-only text it returns analysis_status 'error' with error_info and
\* fallback_analysis and leaves exactly one new record in the error history;
\* for every other text it returns 'success' with biblical_analysis and
\* tutor_explanation, whether AlephBERT and Ollama are available, unavailable
\* or fail during the call.
C29_SafeAnalysis ==
    (result # << >> /\ result[1].call = "analyze_hebrew_safely") =>
        LET r == result[1]
            blank == \A k \in 1..Len(r.text) : IsSpace(r.text[k])
        IN  /\ r.raises = None
            /\ blank =>
                   /\ r.returns.analysis_status = "error"
                   /\ "error_info" \in DOMAIN r.returns
                   /\ "fallback_analysis" \in DOMAIN r.returns
                   /\ r.returns.error_info # << >>
                   /\ r.returns.fallback_analysis # << >>
                   /\ Len(processor.error_history) = Len(r.before) + 1
            /\ ~blank =>
                   /\ r.returns.analysis_status = "success"
                   /\ "biblical_analysis" \in DOMAIN r.returns
                   /\ "tutor_explanation" \in DOMAIN r.returns
                   /\ r.returns.biblical_analysis # << >>
                   /\ r.returns.tutor_explanation # << >>

\* a text was analysed while both the AlephBERT and the Ollama call failed
C29_BothModelsFailed ==
    /\ result # << >>
    /\ result[1].call = "analyze_hebrew_safely"
    /\ Len(result[1].handled) = 2
    /\ result[1].returns.analysis_status = "success"
    /\ result[1].returns.biblical_analysis[1].source = "Fallback Analysis"

\* s is the beginning of t
IsPrefixOf(s, t) == Len(s) <= Len(t) /\ s = SubSeq(t, 1, Len(s))

\* C30: error_history is append-only: every handle_error call appends exactly
\* one record, the one it returns, and changes no earlier record, whatever
\* the severity; a recovery strategy is run only when the severity is not
\* CRITICAL, and an exception raised inside a recovery strategy does not
\* propagate out of handle_error.
C30_HistoryAppendOnly ==
    result # << >> =>
        LET r == result[1]
        IN  /\ IsPrefixOf(r.before, processor.error_history)
            /\ Len(processor.error_history) = Len(r.before) + Len(r.handled)
            /\ \A k \in 1..Len(r.handled) :
                   LET c == r.handled[k]
                   IN  /\ c.after = Append(c.before, c.returned)
                       /\ IsPrefixOf(c.after, processor.error_history)
                       /\ c.recovery \in {"ran", "failed"} => c.returned.severity # "CRITICAL"
                       /\ c.returned.severity = "CRITICAL" => c.recovery = "not attempted"
                       /\ c.raises = None
            /\ r.call = "handle_error" => r.returns = r.handled[1].returned

\* a recovery strategy raised inside handle_error, and a CRITICAL error is in
\* the history in front of the record of that call
C30_RecoveryFailedAfterCritical ==
    /\ result # << >>
    /\ result[1].call = "handle_error"
    /\ result[1].handled[1].recovery = "failed"
    /\ \E k \in 1..Len(result[1].before) : result[1].before[k].severity = "CRITICAL"

=============================================================================
